---- MODULE Spec2Model ----
(***************************************************************************)
(* Verification model of pdf-reader-mcp: document-handle lifecycle and    *)
(* per-page / sibling fan-out (pdfjs-service, pdflib-service, tools), the  *)
(* two check runners and the structural differ (validation-service), and  *)
(* signature-field analysis (pdflib-service).                              *)
(***************************************************************************)
EXTENDS Integers, Sequences, FiniteSets, TLC

\* ------------------------------------------------------------------ bounds

\* Largest page number of a modelled document (operation-call model).
MaxPages == 2
\* Most items (matches, images, annotations) one page task discovers.
MaxItems == 2

VARIABLES
  \* --- one call of an operation: handles, concurrent tasks, result
  op,           \* the operation that was called
  pageNumbers,  \* resolved page numbers of the call (ascending)
  pc,           \* position of the calling async function
  handles,      \* handles[h] = [kind, st] ; st in none / open / destroyed
  tasks,        \* the promises handed to Promise.all, in array order
  completion,   \* order in which the page tasks fulfilled (task indices)
  out,          \* merged result of the call
  returned      \* "none" while running, then "ok" or "error"

callVars == <<op, pageNumbers, pc, handles, tasks, completion, out, returned>>

VARIABLES
  \* --- one run of a check runner (validateTagged / validateMetadata)
  runner,        \* "tagged", "metadata", or "idle"
  tagsAnalysis,  \* result of analyzeTagsFromDoc handed to validateTagged
  imageCount,    \* result of countImagesFromDoc handed to validateTagged
  meta,          \* result of getMetadata handed to validateMetadata
  vpc,           \* number of the next check to run
  issues, totalChecks, passed, failed, warnings,
  summary,       \* which summary sentence was chosen
  vdone          \* the runner has returned its result

counters == <<totalChecks, passed, failed, warnings>>
valVars == <<runner, tagsAnalysis, imageCount, meta, vpc, issues, totalChecks,
             passed, failed, warnings, summary, vdone>>

VARIABLES
  \* --- one call of compareStructure on two analysed files
  file1, file2,    \* what the analyses report for each file
  dpc,             \* "start", then "done" or "error"
  diffs,           \* the StructureDiffEntry list
  fontComparison,  \* onlyInFile1 / onlyInFile2 / inBoth
  dsummary         \* the counts the summary sentence is built from

diffVars == <<file1, file2, dpc, diffs, fontComparison, dsummary>>

VARIABLES
  \* --- one call of analyzeSignatures
  sigForm,   \* the document's AcroForm as pdf-lib presents it
  spc,       \* position inside analyzeSignatures
  sidx,      \* index of the field the loop is at
  sfields,   \* the local array `fields`
  sfailed,   \* the catch block was entered
  sfailAt,   \* index of the field whose inspection threw (0: before the loop)
  sresult    \* the returned SignaturesAnalysis

sigVars == <<sigForm, spc, sidx, sfields, sfailed, sfailAt, sresult>>

VARIABLES
  \* --- one call of analyzeTagsFromDoc
  tagDoc,    \* the document: its Marked flag and what each page's tree read gives
  tpc,       \* position inside analyzeTagsFromDoc
  tTasks,    \* state of each page callback handed to Promise.all
  tResult    \* the returned TagsAnalysis

tagVars == <<tagDoc, tpc, tTasks, tResult>>

VARIABLES
  \* --- one call of analyzeFontsWithPdfLib
  fontDoc,      \* the document: the font dictionary of each page
  fpc,          \* position inside analyzeFontsWithPdfLib
  fpage,        \* pageIdx + 1 of the loop
  fontMap,      \* base-font name -> pagesUsed of its record (<<>>: no record)
  fontScanned   \* pagesScanned of the result

fontVars == <<fontDoc, fpc, fpage, fontMap, fontScanned>>

VARIABLES
  \* --- one call of parsePageRange
  prPages,      \* the pages argument, as a sequence of characters
  prTotal,      \* the totalPages argument
  prpc,         \* position: before the call, returned, or thrown
  prResult      \* what the call returned or threw

prVars == <<prPages, prTotal, prpc, prResult>>

VARIABLES
  \* --- countImages and extractImages on one document and page selection
  imgDoc,       \* the operator list of each page
  imgSel,       \* resolvePageNumbers(pages, doc.numPages)
  cntpc,        \* position of the countImages call
  cntResult,    \* the number countImages returned
  extpc,        \* position of the extractImages call
  extResult     \* the ImageExtractionResult extractImages returned

imgVars == <<imgDoc, imgSel, cntpc, cntResult, extpc, extResult>>

VARIABLES
  \* --- one load of a document from a local file or a URL
  ldSource,     \* "file" (loadDocument / loadWithPdfLib) or "url"
  ldInput,      \* the input: its byte size and what the path, URL, HTTP
                \* status and content-length header are
  ldpc,         \* position inside readPdfFile or fetchPdfFromUrl
  ldError,      \* code of the error thrown ("" while none)
  parserInput   \* byte sizes of the buffers handed to a PDF parser

ldVars == <<ldSource, ldInput, ldpc, ldError, parserInput>>

VARIABLES
  \* --- one call of processInBatches
  bpItems,      \* items.length
  bpBatchSize,  \* the batchSize argument
  bpI,          \* the loop variable i (0-based)
  bppc,         \* position: at the loop test, awaiting Promise.all, ended
  bpTask,       \* per item: "idle", "running", "done" or "failed"
  bpResults     \* results: the items whose results were pushed, in order

bpVars == <<bpItems, bpBatchSize, bpI, bppc, bpTask, bpResults>>

VARIABLES
  \* --- one call of extractPageText on the text runs of one page
  rcItems,      \* items, in the order the page gives them, then sorted
  rcInput,      \* the order the page gave them in (kept for reference)
  rcpc,         \* position inside extractPageText
  rcLines,      \* the lines as grouped, each a sequence of runs
  rcText        \* the returned string, as a sequence of characters

rcVars == <<rcItems, rcInput, rcpc, rcLines, rcText>>

vars == <<callVars, valVars, diffVars, sigVars, tagVars, fontVars, prVars, imgVars, ldVars, bpVars, rcVars>>

\* What an action of one part of the model leaves alone.
notCall == <<valVars, diffVars, sigVars, tagVars, fontVars, prVars, imgVars, ldVars, bpVars, rcVars>>
notVal == <<callVars, diffVars, sigVars, tagVars, fontVars, prVars, imgVars, ldVars, bpVars, rcVars>>
notDiff == <<callVars, valVars, sigVars, tagVars, fontVars, prVars, imgVars, ldVars, bpVars, rcVars>>
notSig == <<callVars, valVars, diffVars, tagVars, fontVars, prVars, imgVars, ldVars, bpVars, rcVars>>
notTag == <<callVars, valVars, diffVars, sigVars, fontVars, prVars, imgVars, ldVars, bpVars, rcVars>>
notFont == <<callVars, valVars, diffVars, sigVars, tagVars, prVars, imgVars, ldVars, bpVars, rcVars>>
notPr == <<callVars, valVars, diffVars, sigVars, tagVars, fontVars, imgVars, ldVars, bpVars, rcVars>>
notImg == <<callVars, valVars, diffVars, sigVars, tagVars, fontVars, prVars, ldVars, bpVars, rcVars>>
notLd == <<callVars, valVars, diffVars, sigVars, tagVars, fontVars, prVars, imgVars, bpVars, rcVars>>
notBp == <<callVars, valVars, diffVars, sigVars, tagVars, fontVars, prVars, imgVars, ldVars, rcVars>>
notRc == <<callVars, valVars, diffVars, sigVars, tagVars, fontVars, prVars, imgVars, ldVars, bpVars>>

\* ------------------------------------------------------------- helpers

RECURSIVE SortedSeq(_)
\* [...new Set(result)].sort((a, b) => a - b): ascending, without duplicates.
SortedSeq(S) ==
  IF S = {} THEN <<>>
  ELSE LET m == CHOOSE x \in S : \A y \in S : x <= y
       IN <<m>> \o SortedSeq(S \ {m})

RECURSIVE SumSeq(_)
SumSeq(s) == IF s = <<>> THEN 0 ELSE Head(s) + SumSeq(Tail(s))

RECURSIVE Flatten(_)
Flatten(ss) == IF ss = <<>> THEN <<>> ELSE Head(ss) \o Flatten(Tail(ss))

\* ------------------------------------------------- operations and handles

\* Operations that dispatch one task per page of the resolved page range.
PageOps ==
  {"extractText", "searchText", "countImages", "extractImages",
   "analyzeAnnotations", "analyzeTags", "readUrl"}

\* Operations that run sibling analyses concurrently (one Promise.all).
SiblingOps == {"validateTagged", "summarize", "compareStructure"}

\* Operations whose body is one sequential computation on the handle.
BodyOps ==
  {"getMetadata", "getPageCount", "analyzeStructure",
   "analyzeFontsWithPdfLib", "analyzeSignatures"}

\* Operations of the pdf-lib service: loadWithPdfLib, no release call.
PdfLibOps == {"analyzeStructure", "analyzeFontsWithPdfLib", "analyzeSignatures"}

Ops == PageOps \cup SiblingOps \cup BodyOps

\* Adapter kind of each handle a call of o opens.  compareStructure opens
\* none itself: its six sibling operations each open their own
\* (analyzeStructure x2, analyzeFontsWithPdfLib x2, getMetadata x2).
HandleKinds(o) ==
  CASE o = "compareStructure" ->
         <<"pdflib", "pdflib", "pdflib", "pdflib", "pdfjs", "pdfjs">>
    [] o \in PdfLibOps -> <<"pdflib">>
    [] OTHER -> <<"pdfjs">>

\* Number of sibling analyses handed to the operation's Promise.all.
SiblingCount(o) ==
  CASE o = "validateTagged" -> 2      \* analyzeTagsFromDoc, countImagesFromDoc
    [] o = "summarize" -> 3           \* getMetadataFromDoc, extractTextFromDoc, countImagesFromDoc
    [] o = "compareStructure" -> 6
    [] OTHER -> 0

\* A plausible slip: the differ opens one handle per file and hands it to
\* the three analyses of that file.
SiblingHandleSharedPerFile(o, i) ==
  IF o = "compareStructure" THEN 5 + ((i + 1) % 2) ELSE 1

\* The handle sibling analysis i of operation o reads from.
SiblingHandle(o, i) ==
  IF o = "compareStructure" THEN i ELSE 1

\* Whether the operation wraps its work in try { ... } finally { destroy }.
HasFinally(o) == o \notin PdfLibOps /\ o # "compareStructure"

\* Number of results one page task of o can contribute.
ItemRange(o) ==
  CASE o \in {"extractText", "readUrl"} -> {1}    \* one PageText per page
    [] o = "analyzeTags" -> {0, 1}                \* a page subtree or null
    [] OTHER -> 0 .. MaxItems

\* The tasks created when the operation fans out, all started at once.
InitTasks(o, pn) ==
  CASE o \in PageOps ->
         [i \in 1 .. Len(pn) |->
            [kind |-> "page", h |-> 1, own |-> FALSE, page |-> pn[i],
             st |-> "getPage", n |-> 0]]
    [] o \in SiblingOps ->
         [i \in 1 .. SiblingCount(o) |->
            [kind |-> "analysis", h |-> SiblingHandle(o, i),
             own |-> (o = "compareStructure"), page |-> 0,
             st |-> IF o = "compareStructure" THEN "load" ELSE "getPage",
             n |-> 0]]
    [] OTHER ->
         <<[kind |-> "body", h |-> 1, own |-> FALSE, page |-> 0,
            st |-> "read", n |-> 0]>>

Running(t) == t.st \in {"load", "getPage", "read"}
Settled(t) == t.st \in {"done", "failed"}

\* The items a fulfilled page task returns, in discovery order.
TaskItems(t) == [k \in 1 .. t.n |-> <<t.page, k>>]

\* A plausible slip: results pushed to a shared array as each task finishes.
MergeByCompletion(ts, order) ==
  [items |-> Flatten([k \in 1 .. Len(order) |-> TaskItems(ts[order[k]])]),
   total |-> SumSeq([i \in 1 .. Len(ts) |-> ts[i].n])]

\* Promise.all keeps array order; the merge loops / flatMap / reduce walk it.
Merge(ts, order) ==
  [items |-> Flatten([i \in 1 .. Len(ts) |-> TaskItems(ts[i])]),
   total |-> SumSeq([i \in 1 .. Len(ts) |-> ts[i].n])]

NoOut == [items |-> <<>>, total |-> 0]

\* ----------------------------------------------------- operation call

CallInit ==
  /\ op \in Ops
  /\ pageNumbers \in
       IF op = "analyzeTags" THEN {SortedSeq(1 .. k) : k \in 1 .. MaxPages}
       ELSE IF op \in PageOps THEN {SortedSeq(S) : S \in SUBSET (1 .. MaxPages)}
       ELSE {<<>>}
  /\ pc = "start"
  /\ handles = [h \in 1 .. Len(HandleKinds(op)) |->
                  [kind |-> HandleKinds(op)[h], st |-> "none"]]
  /\ tasks = <<>>
  /\ completion = <<>>
  /\ out = NoOut
  /\ returned = "none"

\* loadDocument / loadDocumentFromData / loadWithPdfLib succeeds.
Load ==
  /\ pc = "start"
  /\ op # "compareStructure"
  /\ handles' = [handles EXCEPT ![1].st = "open"]
  /\ pc' = "loaded"
  /\ UNCHANGED <<op, pageNumbers, tasks, completion, out, returned>>
  /\ UNCHANGED notCall

\* Loading throws (unreadable, oversized or corrupted input): no handle exists.
LoadFail ==
  /\ pc = "start"
  /\ op # "compareStructure"
  /\ pc' = "returned"
  /\ returned' = "error"
  /\ UNCHANGED <<op, pageNumbers, handles, tasks, completion, out>>
  /\ UNCHANGED notCall

\* The array handed to Promise.all is built: every async callback starts.
StartTasks ==
  /\ \/ pc = "loaded"
     \/ pc = "start" /\ op = "compareStructure"
  /\ tasks' = InitTasks(op, pageNumbers)
  /\ pc' = "awaiting"
  /\ UNCHANGED <<op, pageNumbers, handles, completion, out, returned>>
  /\ UNCHANGED notCall

\* resolvePageNumbers throws (invalid page range) before any task exists.
ResolveFail ==
  /\ pc = "loaded"
  /\ op \in PageOps \ {"analyzeTags"}
  /\ pc' = "rejected"
  /\ UNCHANGED <<op, pageNumbers, handles, tasks, completion, out, returned>>
  /\ UNCHANGED notCall

\* A sibling operation of compareStructure loads its own document.
TaskLoad(i) ==
  /\ i \in 1 .. Len(tasks)
  /\ tasks[i].st = "load"
  /\ \/ /\ tasks' = [tasks EXCEPT ![i].st = "read"]
        /\ handles' = [handles EXCEPT ![tasks[i].h].st = "open"]
     \/ /\ tasks' = [tasks EXCEPT ![i].st = "failed"]
        /\ UNCHANGED handles
  /\ UNCHANGED <<op, pageNumbers, pc, completion, out, returned>>
  /\ UNCHANGED notCall

\* await doc.getPage(pageNum) fulfils.
TaskGetPage(i) ==
  /\ i \in 1 .. Len(tasks)
  /\ tasks[i].st = "getPage"
  /\ tasks' = [tasks EXCEPT ![i].st = "read"]
  /\ UNCHANGED <<op, pageNumbers, pc, handles, completion, out, returned>>
  /\ UNCHANGED notCall

\* The handle state after the task's own operation has left its try/finally.
ReleaseOwn(hs, t) ==
  IF t.own /\ hs[t.h].kind = "pdfjs"
  THEN [hs EXCEPT ![t.h].st = "destroyed"]
  ELSE hs

\* The task's read (text content, operator list, annotations, struct tree,
\* or the whole body) fulfils and the callback returns its result.
TaskComplete(i) ==
  /\ i \in 1 .. Len(tasks)
  /\ tasks[i].st = "read"
  /\ \E k \in (IF tasks[i].kind = "page" THEN ItemRange(op) ELSE {0}) :
       tasks' = [tasks EXCEPT ![i].st = "done", ![i].n = k]
  /\ handles' = ReleaseOwn(handles, tasks[i])
  /\ completion' = IF tasks[i].kind = "page" THEN Append(completion, i)
                   ELSE completion
  /\ UNCHANGED <<op, pageNumbers, pc, out, returned>>
  /\ UNCHANGED notCall

\* getPage or the read rejects.  analyzeTagsFromDoc catches a getStructTree
\* failure inside the callback: that page then yields null, not a rejection.
TaskFail(i) ==
  /\ i \in 1 .. Len(tasks)
  /\ tasks[i].st \in {"getPage", "read"}
  /\ IF op = "analyzeTags" /\ tasks[i].st = "read"
     THEN /\ tasks' = [tasks EXCEPT ![i].st = "done", ![i].n = 0]
          /\ completion' = Append(completion, i)
     ELSE /\ tasks' = [tasks EXCEPT ![i].st = "failed"]
          /\ UNCHANGED completion
  /\ handles' = ReleaseOwn(handles, tasks[i])
  /\ UNCHANGED <<op, pageNumbers, pc, out, returned>>
  /\ UNCHANGED notCall

\* Promise.all fulfils once every task has fulfilled.
AwaitResolve ==
  /\ pc = "awaiting"
  /\ \A i \in 1 .. Len(tasks) : tasks[i].st = "done"
  /\ pc' = "resolved"
  /\ UNCHANGED <<op, pageNumbers, handles, tasks, completion, out, returned>>
  /\ UNCHANGED notCall

\* Promise.all rejects as soon as one task has rejected; the others go on.
AwaitReject ==
  /\ pc = "awaiting"
  /\ \E i \in 1 .. Len(tasks) : tasks[i].st = "failed"
  /\ pc' = "rejected"
  /\ UNCHANGED <<op, pageNumbers, handles, tasks, completion, out, returned>>
  /\ UNCHANGED notCall

\* A plausible slip: destroy placed after the await instead of in finally.
FinallyDestroyOnSuccessOnly ==
  /\ pc \in {"resolved", "rejected"}
  /\ HasFinally(op)
  /\ handles' = IF pc = "resolved" THEN [handles EXCEPT ![1].st = "destroyed"]
                ELSE handles
  /\ pc' = IF pc = "resolved" THEN "finallyOk" ELSE "finallyErr"
  /\ UNCHANGED <<op, pageNumbers, tasks, completion, out, returned>>
  /\ UNCHANGED notCall

\* finally { await doc.destroy(); } on both the normal and the throwing path.
FinallyDestroy ==
  /\ pc \in {"resolved", "rejected"}
  /\ HasFinally(op)
  /\ handles' = [handles EXCEPT ![1].st = "destroyed"]
  /\ pc' = IF pc = "resolved" THEN "finallyOk" ELSE "finallyErr"
  /\ UNCHANGED <<op, pageNumbers, tasks, completion, out, returned>>
  /\ UNCHANGED notCall

\* The operation returns its merged result.
ReturnOk ==
  /\ \/ pc = "finallyOk"
     \/ pc = "resolved" /\ ~HasFinally(op)
  /\ out' = IF op \in PageOps THEN Merge(tasks, completion) ELSE NoOut
  /\ returned' = "ok"
  /\ pc' = "returned"
  /\ UNCHANGED <<op, pageNumbers, handles, tasks, completion>>
  /\ UNCHANGED notCall

\* The operation rethrows the failure to its caller.
ReturnError ==
  /\ \/ pc = "finallyErr"
     \/ pc = "rejected" /\ ~HasFinally(op)
  /\ returned' = "error"
  /\ pc' = "returned"
  /\ UNCHANGED <<op, pageNumbers, handles, tasks, completion, out>>
  /\ UNCHANGED notCall

CallNext ==
  \/ Load
  \/ LoadFail
  \/ StartTasks
  \/ ResolveFail
  \/ \E i \in 1 .. Len(tasks) : TaskLoad(i)
  \/ \E i \in 1 .. Len(tasks) : TaskGetPage(i)
  \/ \E i \in 1 .. Len(tasks) : TaskComplete(i)
  \/ \E i \in 1 .. Len(tasks) : TaskFail(i)
  \/ AwaitResolve
  \/ AwaitReject
  \/ FinallyDestroy
  \/ ReturnOk
  \/ ReturnError

\* ---------------------------------------------------- check runners

\* Most tags of one counted role (Figure) in a modelled tag tree.
MaxCount == 2
\* Most images countImagesFromDoc reports for a modelled document.
MaxImages == 2
\* Heading levels H1..H6 scanned by check 4.
MaxHeadingLevel == 6

HeadingRole(i) == <<"H1", "H2", "H3", "H4", "H5", "H6">>[i]

Roles ==
  {"Document", "H", "H1", "H2", "H3", "H4", "H5", "H6", "Figure", "P",
   "Table", "TR", "TH", "TD"}

\* A role-count map as buildTagNode accumulates it: a role is a key exactly
\* when it was counted at least once (0 stands for "no such key").
RoleCountMaps ==
  { [r \in Roles |->
       CASE r = "Document" -> d
         [] r = "H" -> g
         [] r \in {HeadingRole(i) : i \in hs} -> 1
         [] r = "Figure" -> f
         [] r = "P" -> p
         [] r \in tb -> 1
         [] OTHER -> 0] :
      d \in 0 .. 1, g \in 0 .. 1, hs \in SUBSET (1 .. MaxHeadingLevel),
      f \in 0 .. MaxCount, p \in 0 .. 1, tb \in SUBSET {"Table", "TR", "TH"} }

RECURSIVE SumCounts(_, _)
SumCounts(rc, S) ==
  IF S = {} THEN 0
  ELSE LET r == CHOOSE x \in S : TRUE IN rc[r] + SumCounts(rc, S \ {r})

\* countTagElements summed over the page subtrees: one per built node.
RoleTotal(rc) == SumCounts(rc, Roles)

\* What analyzeTagsFromDoc returns: the untagged result, or for a tagged
\* document the merged counts (every built node is counted once under its
\* role; rootTag is null exactly when no page produced a node).
TagsAnalyses ==
  { [isTagged |-> FALSE, rootTag |-> FALSE, totalElements |-> 0,
     roleCounts |-> [r \in Roles |-> 0]] }
  \cup
  { [isTagged |-> TRUE, rootTag |-> RoleTotal(rc) > 0,
     totalElements |-> RoleTotal(rc), roleCounts |-> rc] :
      rc \in RoleCountMaps }

NoTags == [isTagged |-> FALSE, rootTag |-> FALSE, totalElements |-> 0,
           roleCounts |-> [r \in Roles |-> 0]]

\* ---- strings as sequences of characters, for the date patterns

Digits == {"0", "1", "2", "3", "4", "5", "6", "7", "8", "9"}

IsDigits(s, a, b) == Len(s) >= b /\ \A i \in a .. b : s[i] \in Digits

Rest(s, a) == SubSeq(s, a, Len(s))

\* The character class [+-Z] of the PDF-date pattern: a range from '+'
\* (0x2B) to 'Z' (0x5A), not the three characters '+', '-', 'Z'.
TzClass ==
  {"+", ",", "-", ".", "/", ":", ";", "<", "=", ">", "?", "@"} \cup Digits
  \cup {"A", "B", "C", "D", "E", "F", "G", "H", "I", "J", "K", "L", "M",
        "N", "O", "P", "Q", "R", "S", "T", "U", "V", "W", "X", "Y", "Z"}

\* ([+-Z](\d{2}'\d{2}'?)?)
MatchTz(r) ==
  /\ r[1] \in TzClass
  /\ \/ Len(r) = 1
     \/ /\ Len(r) \in {6, 7}
        /\ IsDigits(r, 2, 3)
        /\ r[4] = "'"
        /\ IsDigits(r, 5, 6)
        /\ (Len(r) = 7 => r[7] = "'")

RECURSIVE MatchOptFields(_, _)
\* (\d{2}(\d{2}( ... (tz)? ... )?)?)? with k two-digit fields still allowed
MatchOptFields(r, k) ==
  IF r = <<>> THEN TRUE
  ELSE IF k > 0
       THEN IsDigits(r, 1, 2) /\ MatchOptFields(Rest(r, 3), k - 1)
       ELSE MatchTz(r)

\* ([+-]\d{2}:?\d{2}|Z)?
MatchIsoTz(z) ==
  \/ z = <<>>
  \/ z = <<"Z">>
  \/ /\ z[1] \in {"+", "-"}
     /\ \/ Len(z) = 5 /\ IsDigits(z, 2, 5)
        \/ Len(z) = 6 /\ IsDigits(z, 2, 3) /\ z[4] = ":" /\ IsDigits(z, 5, 6)

\* (T\d{2}:\d{2}(:\d{2})?(tz)?)
MatchIsoTime(r) ==
  /\ Len(r) >= 6
  /\ r[1] = "T"
  /\ IsDigits(r, 2, 3)
  /\ r[4] = ":"
  /\ IsDigits(r, 5, 6)
  /\ \/ MatchIsoTz(Rest(r, 7))
     \/ /\ Len(r) >= 9
        /\ r[7] = ":"
        /\ IsDigits(r, 8, 9)
        /\ MatchIsoTz(Rest(r, 10))

isValidPdfDate(s) ==
  \/ /\ Len(s) >= 6
     /\ s[1] = "D"
     /\ s[2] = ":"
     /\ IsDigits(s, 3, 6)
     /\ MatchOptFields(Rest(s, 7), 5)
  \/ /\ Len(s) >= 10
     /\ IsDigits(s, 1, 4)
     /\ s[5] = "-"
     /\ IsDigits(s, 6, 7)
     /\ s[8] = "-"
     /\ IsDigits(s, 9, 10)
     /\ (Len(s) = 10 \/ MatchIsoTime(Rest(s, 11)))

\* Creation dates of the modelled documents (<<>> is null: no date).
CreationDates ==
  { <<>>,
    <<"D", ":", "2", "0", "2", "4">>,
    <<"D", ":", "2", "0", "2", "4", "0", "1", "1", "5">>,
    <<"2", "0", "2", "4", "-", "0", "1", "-", "1", "5">>,
    <<"2", "0", "2", "4">>,
    <<"D", ":", "2", "0", "2", "4", "0", "1", "1">>,
    <<"D", ":", "2", "0", "2", "4", "0", "1", "1", "5", "1", "0", "3", "0",
      "0", "0", "A">> }

\* What getMetadata returns, as far as validateMetadata reads it.  The text
\* fields are null ("") or a non-empty string (asStringOrNull).
Metas ==
  [title : {"", "T"}, author : {"", "A"}, creationDate : CreationDates,
   modificationDate : {"", "D:2024"}, producer : {"", "pdf-lib"},
   pdfVersion : {"", "1.3", "1.7"}, isTagged : BOOLEAN,
   subject : {"", "S"}, keywords : {"", "K"}, isEncrypted : BOOLEAN]

NoMeta ==
  [title |-> "", author |-> "", creationDate |-> <<>>,
   modificationDate |-> "", producer |-> "", pdfVersion |-> "",
   isTagged |-> FALSE, subject |-> "", keywords |-> "", isEncrypted |-> FALSE]

ValIdle ==
  /\ runner = "idle"
  /\ tagsAnalysis = NoTags
  /\ imageCount = 0
  /\ meta = NoMeta
  /\ vpc = 0
  /\ issues = <<>>
  /\ totalChecks = 0
  /\ passed = 0
  /\ failed = 0
  /\ warnings = 0
  /\ summary = ""
  /\ vdone = FALSE

ValInit ==
  /\ runner \in {"tagged", "metadata"}
  /\ IF runner = "tagged"
     THEN /\ tagsAnalysis \in TagsAnalyses
          /\ imageCount \in 0 .. MaxImages
          /\ meta = NoMeta
     ELSE /\ tagsAnalysis = NoTags
          /\ imageCount = 0
          /\ meta \in Metas
  /\ vpc = 1
  /\ issues = <<>>
  /\ totalChecks = 0
  /\ passed = 0
  /\ failed = 0
  /\ warnings = 0
  /\ summary = ""
  /\ vdone = FALSE

\* passed++ / failed++ / warnings++ followed by issues.push({...}).
PushL(counter, sev, code, msg, lv) ==
  /\ passed' = passed + (IF counter = "passed" THEN 1 ELSE 0)
  /\ failed' = failed + (IF counter = "failed" THEN 1 ELSE 0)
  /\ warnings' = warnings + (IF counter = "warnings" THEN 1 ELSE 0)
  /\ issues' = Append(issues, [severity |-> sev, code |-> code,
                                message |-> msg, levels |-> lv])

\* The same for a message that lists no heading levels.
Push(counter, sev, code, msg) == PushL(counter, sev, code, msg, <<>>)

\* One numbered check of a runner: totalChecks++ and move on to the next.
Step(who, k) ==
  /\ runner = who
  /\ ~vdone
  /\ vpc = k
  /\ totalChecks' = totalChecks + 1
  /\ vpc' = k + 1
  /\ UNCHANGED <<runner, tagsAnalysis, imageCount, meta, summary, vdone>>
  /\ UNCHANGED notVal

CountSeverity(iss, sev) == Cardinality({k \in 1 .. Len(iss) : iss[k].severity = sev})

\* The severity rollup both runners end with.
Rollup(iss) ==
  IF CountSeverity(iss, "error") = 0 /\ CountSeverity(iss, "warning") = 0
  THEN "all passed"
  ELSE IF CountSeverity(iss, "error") = 0 THEN "passed with warnings"
  ELSE "errors"

\* A plausible slip: the untagged branch records the error but falls
\* through to the remaining checks instead of returning.
TagCheck1NoReturn ==
  /\ Step("tagged", 1)
  /\ IF ~tagsAnalysis.isTagged
     THEN Push("failed", "error", "TAG-001", "Document is not tagged")
     ELSE Push("passed", "info", "TAG-001", "Document is marked as tagged")

\* Check 1: is the document tagged?  If not: one error, and return.
TagCheck1 ==
  /\ runner = "tagged"
  /\ ~vdone
  /\ vpc = 1
  /\ totalChecks' = totalChecks + 1
  /\ IF ~tagsAnalysis.isTagged
     THEN /\ Push("failed", "error", "TAG-001", "Document is not tagged")
          /\ summary' = "not tagged"
          /\ vdone' = TRUE
          /\ vpc' = vpc
     ELSE /\ Push("passed", "info", "TAG-001", "Document is marked as tagged")
          /\ vpc' = 2
          /\ UNCHANGED <<summary, vdone>>
  /\ UNCHANGED <<runner, tagsAnalysis, imageCount, meta>>
  /\ UNCHANGED notVal

\* Check 2: structure tree root exists.
TagCheck2 ==
  /\ Step("tagged", 2)
  /\ IF ~tagsAnalysis.rootTag
     THEN Push("failed", "error", "TAG-002", "No structure tree root found")
     ELSE Push("passed", "info", "TAG-002", "Structure tree root exists")

\* Check 3: Document-level root tag.
TagCheck3 ==
  /\ Step("tagged", 3)
  /\ IF tagsAnalysis.roleCounts["Document"] = 0
     THEN Push("warnings", "warning", "TAG-003", "No Document root tag found")
     ELSE Push("passed", "info", "TAG-003", "Document root tag present")

\* headingLevels: the i in 1..6 with a truthy roleCounts[`H${i}`], ascending.
HeadingLevels(ta) ==
  SortedSeq({i \in 1 .. MaxHeadingLevel : ta.roleCounts[HeadingRole(i)] > 0})

\* A plausible slip: the first level is not required to be 1.
IsSequentialFromAnyLevel(hl) ==
  \A i \in 2 .. Len(hl) : hl[i] - hl[i - 1] <= 1

\* isSequential: starts at 1 and no step between neighbours exceeds 1.
IsSequential(hl) ==
  /\ hl[1] = 1
  /\ \A i \in 2 .. Len(hl) : hl[i] - hl[i - 1] <= 1

\* Check 4: heading hierarchy.
TagCheck4 ==
  /\ Step("tagged", 4)
  /\ LET hl == HeadingLevels(tagsAnalysis)
         hasGenericH == tagsAnalysis.roleCounts["H"] > 0
     IN IF Len(hl) = 0 /\ ~hasGenericH
        THEN Push("warnings", "warning", "TAG-004", "No heading tags found")
        ELSE IF Len(hl) > 0
        THEN IF ~IsSequential(hl)
             THEN PushL("warnings", "warning", "TAG-004",
                        "Heading hierarchy has gaps", hl)
             ELSE PushL("passed", "info", "TAG-004",
                        "Heading hierarchy is sequential", hl)
        ELSE Push("passed", "info", "TAG-004",
                  "Generic H tags used for headings")

\* A plausible slip: as many Figure tags as images still warns.
TagCheck5WarnsWhenEqual ==
  /\ Step("tagged", 5)
  /\ LET figureCount == tagsAnalysis.roleCounts["Figure"]
     IN IF imageCount > 0 /\ figureCount = 0
        THEN Push("failed", "error", "TAG-005", "images but no Figure tags")
        ELSE IF imageCount > 0 /\ figureCount <= imageCount
        THEN Push("warnings", "warning", "TAG-005", "fewer Figure tags than images")
        ELSE IF imageCount > 0
        THEN Push("passed", "info", "TAG-005", "Figure tags for images")
        ELSE Push("passed", "info", "TAG-005", "No images detected")

\* Check 5: Figure tags for images.
TagCheck5 ==
  /\ Step("tagged", 5)
  /\ LET figureCount == tagsAnalysis.roleCounts["Figure"]
     IN IF imageCount > 0 /\ figureCount = 0
        THEN Push("failed", "error", "TAG-005", "images but no Figure tags")
        ELSE IF imageCount > 0 /\ figureCount < imageCount
        THEN Push("warnings", "warning", "TAG-005", "fewer Figure tags than images")
        ELSE IF imageCount > 0
        THEN Push("passed", "info", "TAG-005", "Figure tags for images")
        ELSE Push("passed", "info", "TAG-005", "No images detected")

\* Check 6: paragraph tags.
TagCheck6 ==
  /\ Step("tagged", 6)
  /\ IF tagsAnalysis.roleCounts["P"] = 0
     THEN Push("warnings", "warning", "TAG-006", "No P (Paragraph) tags found")
     ELSE Push("passed", "info", "TAG-006", "Paragraph tag(s) found")

\* Check 7: minimum element count.
TagCheck7 ==
  /\ Step("tagged", 7)
  /\ IF tagsAnalysis.totalElements < 2
     THEN Push("warnings", "warning", "TAG-007", "Too few structure elements")
     ELSE Push("passed", "info", "TAG-007", "structure elements found")

\* A plausible slip: a table without rows counted as a failure while the
\* issue keeps severity warning.
TagCheck8FailedCounter ==
  /\ Step("tagged", 8)
  /\ LET rc == tagsAnalysis.roleCounts
     IN IF rc["Table"] > 0
        THEN IF rc["TR"] = 0
             THEN Push("failed", "warning", "TAG-008", "Table tag(s) but no TR")
             ELSE IF rc["TH"] = 0
             THEN Push("warnings", "warning", "TAG-008", "rows but no TH")
             ELSE Push("passed", "info", "TAG-008", "Table structure")
        ELSE Push("passed", "info", "TAG-008", "No Table tags found")

\* Check 8: table tags.
TagCheck8 ==
  /\ Step("tagged", 8)
  /\ LET rc == tagsAnalysis.roleCounts
     IN IF rc["Table"] > 0
        THEN IF rc["TR"] = 0
             THEN Push("warnings", "warning", "TAG-008", "Table tag(s) but no TR")
             ELSE IF rc["TH"] = 0
             THEN Push("warnings", "warning", "TAG-008", "rows but no TH")
             ELSE Push("passed", "info", "TAG-008", "Table structure")
        ELSE Push("passed", "info", "TAG-008", "No Table tags found")

\* The summary is chosen and validateTagged returns.
TagReturn ==
  /\ runner = "tagged"
  /\ ~vdone
  /\ vpc = 9
  /\ summary' = Rollup(issues)
  /\ vdone' = TRUE
  /\ UNCHANGED <<runner, tagsAnalysis, imageCount, meta, vpc, issues, counters>>
  /\ UNCHANGED notVal

\* Check 1: title (the only metadata check that can fail).
MetaCheck1 ==
  /\ Step("metadata", 1)
  /\ IF meta.title = ""
     THEN Push("failed", "error", "META-001", "Title is missing")
     ELSE Push("passed", "info", "META-001", "Title")

\* Check 2: author.
MetaCheck2 ==
  /\ Step("metadata", 2)
  /\ IF meta.author = ""
     THEN Push("warnings", "warning", "META-002", "Author is missing")
     ELSE Push("passed", "info", "META-002", "Author")

\* A plausible slip: a missing creation date is skipped without an issue.
MetaCheck3SkipMissing ==
  /\ Step("metadata", 3)
  /\ IF meta.creationDate = <<>>
     THEN UNCHANGED <<passed, failed, warnings, issues>>
     ELSE IF isValidPdfDate(meta.creationDate)
     THEN Push("passed", "info", "META-003", "Creation date")
     ELSE Push("warnings", "warning", "META-003", "Creation date format may be non-standard")

\* Check 3: creation date present and well-formed.
MetaCheck3 ==
  /\ Step("metadata", 3)
  /\ IF meta.creationDate = <<>>
     THEN Push("warnings", "warning", "META-003", "Creation date is missing")
     ELSE IF isValidPdfDate(meta.creationDate)
     THEN Push("passed", "info", "META-003", "Creation date")
     ELSE Push("warnings", "warning", "META-003", "Creation date format may be non-standard")

\* Check 4: modification date.
MetaCheck4 ==
  /\ Step("metadata", 4)
  /\ IF meta.modificationDate = ""
     THEN Push("warnings", "warning", "META-004", "Modification date is missing")
     ELSE Push("passed", "info", "META-004", "Modification date")

\* Check 5: producer.
MetaCheck5 ==
  /\ Step("metadata", 5)
  /\ IF meta.producer = ""
     THEN Push("warnings", "warning", "META-005", "Producer is missing")
     ELSE Push("passed", "info", "META-005", "Producer")

\* Check 6: PDF version (info whatever the version, only the wording differs).
MetaCheck6 ==
  /\ Step("metadata", 6)
  /\ IF meta.pdfVersion = ""
     THEN Push("warnings", "warning", "META-006", "PDF version not detected")
     ELSE IF meta.pdfVersion = "1.3"
     THEN Push("passed", "info", "META-006", "PDF version (pre-1.4)")
     ELSE Push("passed", "info", "META-006", "PDF version")

\* Check 7: tagged flag.
MetaCheck7 ==
  /\ Step("metadata", 7)
  /\ IF ~meta.isTagged
     THEN Push("warnings", "warning", "META-007", "Document is not tagged")
     ELSE Push("passed", "info", "META-007", "Document is tagged")

\* Check 8: subject.
MetaCheck8 ==
  /\ Step("metadata", 8)
  /\ IF meta.subject = ""
     THEN Push("warnings", "warning", "META-008", "Subject is missing")
     ELSE Push("passed", "info", "META-008", "Subject")

\* Check 9: keywords.
MetaCheck9 ==
  /\ Step("metadata", 9)
  /\ IF meta.keywords = ""
     THEN Push("warnings", "warning", "META-009", "Keywords are missing")
     ELSE Push("passed", "info", "META-009", "Keywords")

\* Check 10: encryption.
MetaCheck10 ==
  /\ Step("metadata", 10)
  /\ IF meta.isEncrypted
     THEN Push("warnings", "warning", "META-010", "Document is encrypted")
     ELSE Push("passed", "info", "META-010", "Document is not encrypted")

\* The summary is chosen and validateMetadata returns.
MetaReturn ==
  /\ runner = "metadata"
  /\ ~vdone
  /\ vpc = 11
  /\ summary' = Rollup(issues)
  /\ vdone' = TRUE
  /\ UNCHANGED <<runner, tagsAnalysis, imageCount, meta, vpc, issues, counters>>
  /\ UNCHANGED notVal

ValNext ==
  \/ TagCheck1
  \/ TagCheck2
  \/ TagCheck3
  \/ TagCheck4
  \/ TagCheck5
  \/ TagCheck6
  \/ TagCheck7
  \/ TagCheck8
  \/ TagReturn
  \/ MetaCheck1
  \/ MetaCheck2
  \/ MetaCheck3
  \/ MetaCheck4
  \/ MetaCheck5
  \/ MetaCheck6
  \/ MetaCheck7
  \/ MetaCheck8
  \/ MetaCheck9
  \/ MetaCheck10
  \/ MetaReturn

\* ---------------------------------------------------- structural differ

\* Largest page count of a compared file.
MaxDocPages == 2
\* Compared files are drawn from variants 0 .. MaxVariant of their analysis.
MaxVariant == 3

Digit(n) == <<"0", "1", "2", "3", "4", "5", "6", "7", "8", "9">>[n + 1]

RECURSIVE NatToStr(_)
\* String(n) for a non-negative integer, as a sequence of characters.
NatToStr(n) ==
  IF n < 10 THEN <<Digit(n)>> ELSE NatToStr(n \div 10) \o <<Digit(n % 10)>>

\* String(b) for a boolean.
BoolToStr(b) == IF b THEN <<"t", "r", "u", "e">> ELSE <<"f", "a", "l", "s", "e">>

\* `${x}` for a number rounded to two decimals (given in hundredths):
\* no trailing zeros, no decimal point for a whole number.
NumToStr(x100) ==
  LET fr == x100 % 100
  IN NatToStr(x100 \div 100) \o
       (IF fr = 0 THEN <<>>
        ELSE IF fr % 10 = 0 THEN <<".", Digit(fr \div 10)>>
        ELSE <<".", Digit(fr \div 10), Digit(fr % 10)>>)

\* (num / den).toFixed(1): the nearest tenth, the larger one on a tie.
ToFixed1(num, den) ==
  LET t == (20 * num + den) \div (2 * den)
  IN NatToStr(t \div 10) \o <<".", Digit(t % 10)>>

formatFileSize(bytes) ==
  IF bytes < 1024 THEN NatToStr(bytes) \o <<" ", "B">>
  ELSE IF bytes < 1024 * 1024 THEN ToFixed1(bytes, 1024) \o <<" ", "K", "B">>
  ELSE ToFixed1(bytes, 1024 * 1024) \o <<" ", "M", "B">>

\* pdfVersion as analyzeStructure reports it (<<>> stands for null).
Versions ==
  {<<>>, <<"1", ".", "4">>, <<"1", ".", "4", "0">>, <<"1", ".", "7">>}

\* meta.fileSize samples: below 1 KB, two sizes that format alike, a
\* rounding tie, and 1 MB.
FileSizes == {500, 1024, 1075, 1280, 1048576}

\* First-page media boxes, in hundredths of a point.
Boxes ==
  <<[width |-> 59500, height |-> 84200], [width |-> 61200, height |-> 79200],
    [width |-> 59528, height |-> 84189]>>

FontSets == <<{}, {"Helvetica"}, {"Helvetica", "Times-Roman"}, {"Times-Roman"}>>

\* What analyzeStructure, analyzeFontsWithPdfLib and getMetadata report for
\* one file.
DocOf(p, v, s, k) ==
  [totalPages |-> p, box |-> Boxes[(k % 3) + 1], pdfVersion |-> v,
   isEncrypted |-> (k % 2 = 1), isTagged |-> ((k \div 2) % 2 = 1),
   hasSignatures |-> (k % 3 = 2), totalObjects |-> 8 + k, streamCount |-> k,
   catalogLen |-> 2 + (k % 3), fonts |-> FontSets[(k % 4) + 1],
   fileSize |-> s]

Docs ==
  {DocOf(p, v, s, k) :
     p \in 0 .. MaxDocPages, v \in Versions, s \in FileSizes, k \in 0 .. MaxVariant}

NoDoc == DocOf(0, <<>>, 0, 0)

\* dim ? `${dim.width} x ${dim.height}` : 'N/A' (no sample without a page).
Dimensions(d) ==
  IF d.totalPages > 0
  THEN NumToStr(d.box.width) \o <<" ", "x", " ">> \o NumToStr(d.box.height)
  ELSE <<"N", "/", "A">>

\* struct.pdfVersion ?? 'Unknown'
VersionOrUnknown(d) ==
  IF d.pdfVersion = <<>> THEN <<"U", "n", "k", "n", "o", "w", "n">>
  ELSE d.pdfVersion

RECURSIVE DigitsValue(_)
DigitsValue(s) ==
  IF s = <<>> THEN 0
  ELSE 10 * DigitsValue(SubSeq(s, 1, Len(s) - 1))
         + (CHOOSE n \in 0 .. 9 : Digit(n) = s[Len(s)])

\* Number(s) in hundredths for a plain decimal numeral, -1 for NaN.
ToNumber(s) ==
  LET dots == {i \in 1 .. Len(s) : s[i] = "."}
  IN IF dots = {}
     THEN IF s # <<>> /\ IsDigits(s, 1, Len(s)) THEN 100 * DigitsValue(s) ELSE -1
     ELSE LET i == CHOOSE x \in dots : TRUE
              fr == SubSeq(s, i + 1, Len(s))
          IN IF /\ Cardinality(dots) = 1
                /\ i > 1 /\ IsDigits(s, 1, i - 1)
                /\ Len(fr) \in {1, 2} /\ IsDigits(fr, 1, Len(fr))
             THEN 100 * DigitsValue(SubSeq(s, 1, i - 1))
                    + (IF Len(fr) = 1 THEN 10 ELSE 1) * DigitsValue(fr)
             ELSE -1

\* A plausible slip: values compared after numeric coercion where both are
\* numerals, so "1.4" and "1.40" count as a match.
addDiffCoerced(ds, property, val1, val2) ==
  Append(ds, [property |-> property, file1Value |-> val1, file2Value |-> val2,
              status |-> IF \/ val1 = val2
                            \/ ToNumber(val1) >= 0 /\ ToNumber(val1) = ToNumber(val2)
                         THEN "match" ELSE "differ"])

\* diffs.push({property, file1Value, file2Value, status: val1 === val2 ? ...})
addDiff(ds, property, val1, val2) ==
  Append(ds, [property |-> property, file1Value |-> val1, file2Value |-> val2,
              status |-> IF val1 = val2 THEN "match" ELSE "differ"])

\* A plausible slip: the Tagged entry takes its second value from the
\* structure analysis of file 2 instead of its metadata.
compareDiffsCopyPaste(d1, d2) ==
  LET e1 == addDiff(<<>>, "Page Count", NatToStr(d1.totalPages), NatToStr(d2.totalPages))
      e2 == addDiff(e1, "PDF Version", VersionOrUnknown(d1), VersionOrUnknown(d2))
      e3 == addDiff(e2, "Encrypted", BoolToStr(d1.isEncrypted), BoolToStr(d2.isEncrypted))
      e4 == addDiff(e3, "Tagged", BoolToStr(d1.isTagged), BoolToStr(d2.isEncrypted))
      e5 == addDiff(e4, "Total Objects", NatToStr(d1.totalObjects), NatToStr(d2.totalObjects))
      e6 == addDiff(e5, "Stream Count", NatToStr(d1.streamCount), NatToStr(d2.streamCount))
      e7 == addDiff(e6, "Page 1 Dimensions (pt)", Dimensions(d1), Dimensions(d2))
      e8 == addDiff(e7, "File Size", formatFileSize(d1.fileSize), formatFileSize(d2.fileSize))
      e9 == addDiff(e8, "Catalog Entries", NatToStr(d1.catalogLen), NatToStr(d2.catalogLen))
      e10 == addDiff(e9, "Has Signatures", BoolToStr(d1.hasSignatures), BoolToStr(d2.hasSignatures))
  IN addDiff(e10, "Total Fonts", NatToStr(Cardinality(d1.fonts)), NatToStr(Cardinality(d2.fonts)))

\* The eleven addDiff calls of compareStructure, in order.
compareDiffs(d1, d2) ==
  LET e1 == addDiff(<<>>, "Page Count", NatToStr(d1.totalPages), NatToStr(d2.totalPages))
      e2 == addDiff(e1, "PDF Version", VersionOrUnknown(d1), VersionOrUnknown(d2))
      e3 == addDiff(e2, "Encrypted", BoolToStr(d1.isEncrypted), BoolToStr(d2.isEncrypted))
      e4 == addDiff(e3, "Tagged", BoolToStr(d1.isTagged), BoolToStr(d2.isTagged))
      e5 == addDiff(e4, "Total Objects", NatToStr(d1.totalObjects), NatToStr(d2.totalObjects))
      e6 == addDiff(e5, "Stream Count", NatToStr(d1.streamCount), NatToStr(d2.streamCount))
      e7 == addDiff(e6, "Page 1 Dimensions (pt)", Dimensions(d1), Dimensions(d2))
      e8 == addDiff(e7, "File Size", formatFileSize(d1.fileSize), formatFileSize(d2.fileSize))
      e9 == addDiff(e8, "Catalog Entries", NatToStr(d1.catalogLen), NatToStr(d2.catalogLen))
      e10 == addDiff(e9, "Has Signatures", BoolToStr(d1.hasSignatures), BoolToStr(d2.hasSignatures))
  IN addDiff(e10, "Total Fonts", NatToStr(Cardinality(d1.fonts)), NatToStr(Cardinality(d2.fonts)))

CountStatus(ds, st) == Cardinality({k \in 1 .. Len(ds) : ds[k].status = st})

NoFontComparison == [onlyInFile1 |-> {}, onlyInFile2 |-> {}, inBoth |-> {}]
NoSummary == [matchCount |-> 0, diffCount |-> 0, total |-> 0]

DiffIdle ==
  /\ file1 = NoDoc
  /\ file2 = NoDoc
  /\ dpc = "idle"
  /\ diffs = <<>>
  /\ fontComparison = NoFontComparison
  /\ dsummary = NoSummary

DiffInit ==
  /\ file1 \in Docs
  /\ file2 \in Docs
  /\ dpc = "start"
  /\ diffs = <<>>
  /\ fontComparison = NoFontComparison
  /\ dsummary = NoSummary

\* All six analyses fulfilled: the diff list, the font comparison and the
\* summary counts are built and returned.
Compare ==
  /\ dpc = "start"
  /\ diffs' = compareDiffs(file1, file2)
  /\ fontComparison' = [onlyInFile1 |-> file1.fonts \ file2.fonts,
                        onlyInFile2 |-> file2.fonts \ file1.fonts,
                        inBoth |-> file1.fonts \cap file2.fonts]
  /\ dsummary' = [matchCount |-> CountStatus(diffs', "match"),
                  diffCount |-> CountStatus(diffs', "differ"),
                  total |-> Len(diffs')]
  /\ dpc' = "done"
  /\ UNCHANGED <<file1, file2>>
  /\ UNCHANGED notDiff

\* One of the six analyses rejected: compareStructure throws, nothing built.
CompareFail ==
  /\ dpc = "start"
  /\ dpc' = "error"
  /\ UNCHANGED <<file1, file2, diffs, fontComparison, dsummary>>
  /\ UNCHANGED notDiff

DiffNext ==
  \/ Compare
  \/ CompareFail

\* ------------------------------------------------- signature fields

\* Most fields in a modelled AcroForm.
MaxFields == 2

\* The /FT entry as lookupMaybe(FT, PDFName) meets it: the name Sig, another
\* name, no entry, or an entry that is no name (lookupMaybe then throws).
FieldTypes == {"Sig", "Tx", "none", "notAName"}

\* The /V entry as field.dict.get(V) and context.lookup meet it.
ValueKinds ==
  {"absent",          \* no V entry: get returns undefined
   "dict",            \* a direct dictionary
   "dictBadFilter",   \* a dictionary whose /Filter is no name: lookupMaybe throws
   "refDict",         \* a reference that resolves to a dictionary
   "refOther",        \* a reference that resolves to something else
   "refMissing",      \* a reference that resolves to nothing
   "other"}           \* a direct object that is neither (a string, a number)

SigFieldSeqs ==
  UNION {[1 .. n -> [ft : FieldTypes, v : ValueKinds]] : n \in 0 .. MaxFields}

\* getAcroForm: undefined, a form, or a throw on a malformed catalog entry;
\* getAllFields: the fields, or a throw on a malformed field tree.
SigForms ==
  [acroForm : {"none", "malformed", "ok"}, fieldsOk : BOOLEAN,
   fields : SigFieldSeqs]

NoForm == [acroForm |-> "none", fieldsOk |-> TRUE, fields |-> <<>>]

\* sigDict is set: V is a dictionary or a reference resolving to one.
ResolvesToDict(v) == v \in {"dict", "dictBadFilter", "refDict"}

\* A plausible slip: signed only once the signature dictionary resolved.
IsSignedIfDict(v) == ResolvesToDict(v)

\* if (vObj) { isSigned = true; ... }
IsSigned(v) == v # "absent"

\* Reading the field throws: /FT is no name, or the signature dictionary's
\* /Filter (or /SubFilter) is no name.
InspectThrows(f) ==
  \/ f.ft = "notAName"
  \/ f.ft = "Sig" /\ f.v = "dictBadFilter"

\* The record pushed for signature field i (details come from sigDict only).
SigRecord(i, f) ==
  [fieldName |-> i, isSigned |-> IsSigned(f.v),
   hasDetails |-> ResolvesToDict(f.v)]

CountSigned(fs) == Cardinality({k \in 1 .. Len(fs) : fs[k].isSigned})

\* The note of the result built after the try/catch.
Disclaimer ==
  "Cryptographic signature verification is not performed. Only field structure is inspected."

\* The note of the early return taken when the catalog has no AcroForm.
NoAcroFormNote == "No AcroForm found in the document."

\* A plausible slip: the result is built without its note.
SigResultNoNote(fs) ==
  [totalFields |-> Len(fs), signedCount |-> CountSigned(fs),
   unsignedCount |-> Len(fs) - CountSigned(fs), fields |-> fs,
   note |-> ""]

\* The result built after the try/catch from whatever `fields` holds.
SigResult(fs) ==
  [totalFields |-> Len(fs), signedCount |-> CountSigned(fs),
   unsignedCount |-> Len(fs) - CountSigned(fs), fields |-> fs,
   note |-> Disclaimer]

NoSigResult ==
  [totalFields |-> 0, signedCount |-> 0, unsignedCount |-> 0, fields |-> <<>>,
   note |-> ""]

SigIdle ==
  /\ sigForm = NoForm
  /\ spc = "idle"
  /\ sidx = 0
  /\ sfields = <<>>
  /\ sfailed = FALSE
  /\ sfailAt = 0
  /\ sresult = NoSigResult

SigInit ==
  /\ sigForm \in SigForms
  /\ spc = "start"
  /\ sidx = 0
  /\ sfields = <<>>
  /\ sfailed = FALSE
  /\ sfailAt = 0
  /\ sresult = NoSigResult

\* A plausible slip: no catch, the failure reaches the caller.
SigCatchRethrow(k) ==
  /\ spc' = "thrown"
  /\ sfailed' = TRUE
  /\ sfailAt' = k

\* catch { }: the failure is swallowed and control goes on after the try.
SigCatch(k) ==
  /\ spc' = "finish"
  /\ sfailed' = TRUE
  /\ sfailAt' = k

\* loadWithPdfLib, outside the try: it fulfils, or its failure propagates.
SigLoad ==
  /\ spc = "start"
  /\ spc' \in {"getForm", "thrown"}
  /\ UNCHANGED <<sigForm, sidx, sfields, sfailed, sfailAt, sresult>>
  /\ UNCHANGED notSig

\* doc.catalog.getAcroForm(), and the early return when there is none.
SigGetAcroForm ==
  /\ spc = "getForm"
  /\ CASE sigForm.acroForm = "none" ->
            /\ sresult' = [NoSigResult EXCEPT !.note = NoAcroFormNote]
            /\ spc' = "returned"
            /\ UNCHANGED <<sfailed, sfailAt>>
       [] sigForm.acroForm = "malformed" ->
            /\ SigCatch(0)
            /\ UNCHANGED sresult
       [] OTHER ->
            /\ spc' = "getFields"
            /\ UNCHANGED <<sfailed, sfailAt, sresult>>
  /\ UNCHANGED <<sigForm, sidx, sfields>>
  /\ UNCHANGED notSig

\* acroForm.getAllFields()
SigGetAllFields ==
  /\ spc = "getFields"
  /\ IF sigForm.fieldsOk
     THEN /\ spc' = "loop"
          /\ sidx' = 1
          /\ UNCHANGED <<sfailed, sfailAt>>
     ELSE /\ SigCatch(0)
          /\ UNCHANGED sidx
  /\ UNCHANGED <<sigForm, sfields, sresult>>
  /\ UNCHANGED notSig

\* One iteration of the loop over allFields.
SigInspectField ==
  /\ spc = "loop"
  /\ sidx <= Len(sigForm.fields)
  /\ LET f == sigForm.fields[sidx]
     IN IF InspectThrows(f)
        THEN /\ SigCatch(sidx)
             /\ UNCHANGED <<sidx, sfields>>
        ELSE /\ sfields' = IF f.ft = "Sig"
                           THEN Append(sfields, SigRecord(sidx, f))
                           ELSE sfields
             /\ sidx' = sidx + 1
             /\ UNCHANGED <<spc, sfailed, sfailAt>>
  /\ UNCHANGED <<sigForm, sresult>>
  /\ UNCHANGED notSig

\* The loop has visited every field.
SigLoopExit ==
  /\ spc = "loop"
  /\ sidx > Len(sigForm.fields)
  /\ spc' = "finish"
  /\ UNCHANGED <<sigForm, sidx, sfields, sfailed, sfailAt, sresult>>
  /\ UNCHANGED notSig

\* The counts are taken from `fields` and the result is returned.
SigReturn ==
  /\ spc = "finish"
  /\ sresult' = SigResult(sfields)
  /\ spc' = "returned"
  /\ UNCHANGED <<sigForm, sidx, sfields, sfailed, sfailAt>>
  /\ UNCHANGED notSig

SigNext ==
  \/ SigLoad
  \/ SigGetAcroForm
  \/ SigGetAllFields
  \/ SigInspectField
  \/ SigLoopExit
  \/ SigReturn

\* ------------------------------------------------------ tag-tree analysis

\* Most tag nodes below the page roots of one document's structure trees.
MaxNodes == 2

\* Role names of structure elements: any PDF name can occur, among them
\* names that every JavaScript object inherits as a property.
TagRoles == {"P", "constructor"}

\* The role pdfjs gives the top node of a page's structure tree.
PageRootRole == "Root"

AllTagRoles == TagRoles \cup {PageRootRole}

\* Keys that `roleCounts[role]` finds on a fresh {} before any was set.
InheritedKeys == {"constructor"}

RECURSIVE ForestsOfSize(_)
RECURSIVE TreesOfSize(_)
\* The trees of exactly k tag nodes, and the child lists of n nodes in all.
TreesOfSize(k) ==
  {[role |-> r, children |-> f] : r \in TagRoles, f \in ForestsOfSize(k - 1)}

ForestsOfSize(n) ==
  IF n = 0 THEN {<<>>}
  ELSE UNION {{<<t>> \o f : t \in TreesOfSize(k), f \in ForestsOfSize(n - k)} :
                k \in 1 .. n}

Forests == UNION {ForestsOfSize(n) : n \in 0 .. MaxNodes}

RECURSIVE ForestSize(_)
\* Number of tag nodes in a child list.
ForestSize(f) ==
  IF f = <<>> THEN 0
  ELSE 1 + ForestSize(Head(f).children) + ForestSize(Tail(f))

\* What reading page i gives: a structure tree, no tree (null), a throw of
\* getStructTree, or a throw of getPage itself.
PageOutcomes ==
  {[kind |-> "tree", children |-> f] : f \in Forests}
  \cup {[kind |-> k, children |-> <<>>] :
          k \in {"none", "structFails", "getPageFails"}}

TagDocs ==
  {[marked |-> TRUE, pages |-> ps] :
     ps \in {qs \in UNION {[1 .. n -> PageOutcomes] : n \in 1 .. MaxPages} :
               SumSeq([i \in 1 .. Len(qs) |-> ForestSize(qs[i].children)])
                 <= MaxNodes}}
  \cup {[marked |-> FALSE,
         pages |-> [i \in 1 .. n |-> [kind |-> "none", children |-> <<>>]]] :
          n \in 1 .. MaxPages}

NoTagDoc == [marked |-> FALSE, pages |-> <<>>]

NoRoleCounts == [r \in AllTagRoles |-> 0]

\* roleCounts[role] ?? 0 on a plain object: the own entry if set (0 stands
\* for "no own entry"), else an inherited property (not a number: -1), else 0.
JsGet(rc, role) ==
  IF rc[role] # 0 THEN rc[role]
  ELSE IF role \in InheritedKeys THEN -1
  ELSE 0

\* a + b: a number only when both operands are numbers, else a string (-1).
JsAdd(a, b) == IF a >= 0 /\ b >= 0 THEN a + b ELSE -1

RECURSIVE CountNode(_, _)
RECURSIVE CountForest(_, _)
\* buildTagNode's effect on roleCounts: the node first, then its children.
CountNode(node, rc) ==
  CountForest(node.children, [rc EXCEPT ![node.role] = JsAdd(JsGet(rc, node.role), 1)])

CountForest(f, rc) ==
  IF f = <<>> THEN rc ELSE CountForest(Tail(f), CountNode(Head(f), rc))

RECURSIVE buildTagNode(_)
\* The TagNode buildTagNode returns for a structure-tree node.
buildTagNode(node) ==
  [role |-> node.role,
   children |-> [k \in 1 .. Len(node.children) |-> buildTagNode(node.children[k])]]

RECURSIVE countTagElementsChildrenOnly(_)
\* A plausible slip: the count starts at 0, so the node itself is not counted.
countTagElementsChildrenOnly(node) ==
  SumSeq([k \in 1 .. Len(node.children) |->
            1 + countTagElementsChildrenOnly(node.children[k])])

RECURSIVE countTagElements(_)
countTagElements(node) ==
  1 + SumSeq([k \in 1 .. Len(node.children) |-> countTagElements(node.children[k])])

RECURSIVE MaxSeq(_)
\* Math.max folded over a list, starting from 0.
MaxSeq(s) ==
  IF s = <<>> THEN 0
  ELSE LET m == MaxSeq(Tail(s)) IN IF Head(s) > m THEN Head(s) ELSE m

RECURSIVE getTagDepth(_)
getTagDepth(node) ==
  IF Len(node.children) = 0 THEN 1
  ELSE MaxSeq([k \in 1 .. Len(node.children) |-> getTagDepth(node.children[k])]) + 1

NoPageResult == [st |-> "pending", hasNode |-> FALSE,
                 node |-> [role |-> "", children |-> <<>>],
                 roleCounts |-> NoRoleCounts]

\* A plausible slip: no try/catch around getStructTree.
PageResultNoCatch(p) ==
  CASE p.kind = "tree" ->
         LET tree == [role |-> PageRootRole, children |-> p.children]
         IN [st |-> "done", hasNode |-> TRUE, node |-> buildTagNode(tree),
             roleCounts |-> CountNode(tree, NoRoleCounts)]
    [] p.kind = "none" -> [NoPageResult EXCEPT !.st = "done"]
    [] OTHER -> [NoPageResult EXCEPT !.st = "failed"]

\* One page callback: getPage, then getStructTree inside try/catch; a tree
\* gives { node, roleCounts }, no tree or a caught throw gives null.
PageResult(p) ==
  CASE p.kind = "tree" ->
         LET tree == [role |-> PageRootRole, children |-> p.children]
         IN [st |-> "done", hasNode |-> TRUE, node |-> buildTagNode(tree),
             roleCounts |-> CountNode(tree, NoRoleCounts)]
    [] p.kind \in {"none", "structFails"} -> [NoPageResult EXCEPT !.st = "done"]
    [] OTHER -> [NoPageResult EXCEPT !.st = "failed"]

RECURSIVE MergeRoleCounts(_, _)
\* roleCounts[role] = (roleCounts[role] ?? 0) + count over each page's
\* own entries, pages in array order.
MergeRoleCounts(rs, rc) ==
  IF rs = <<>> THEN rc
  ELSE LET r == Head(rs)
           next == [x \in AllTagRoles |->
                      IF r.hasNode /\ r.roleCounts[x] # 0
                      THEN JsAdd(JsGet(rc, x), r.roleCounts[x])
                      ELSE rc[x]]
       IN MergeRoleCounts(Tail(rs), next)

\* The page results that are not null, in array order.
NonNull(rs) == SelectSeq(rs, LAMBDA r : r.hasNode)

UntaggedResult ==
  [isTagged |-> FALSE, hasRoot |-> FALSE, rootChildren |-> <<>>, maxDepth |-> 0,
   totalElements |-> 0, roleCounts |-> NoRoleCounts]

\* A plausible slip: the synthetic root level is not added to maxDepth.
TagMergeNoRootLevel(rs) ==
  LET nn == NonNull(rs)
  IN [isTagged |-> TRUE, hasRoot |-> Len(nn) > 0,
      rootChildren |-> [k \in 1 .. Len(nn) |-> nn[k].node],
      maxDepth |-> MaxSeq([k \in 1 .. Len(nn) |-> getTagDepth(nn[k].node)]),
      totalElements |-> SumSeq([k \in 1 .. Len(nn) |-> countTagElements(nn[k].node)]),
      roleCounts |-> MergeRoleCounts(rs, NoRoleCounts)]

\* The aggregation loop and the result of analyzeTagsFromDoc.
TagMerge(rs) ==
  LET nn == NonNull(rs)
  IN [isTagged |-> TRUE, hasRoot |-> Len(nn) > 0,
      rootChildren |-> [k \in 1 .. Len(nn) |-> nn[k].node],
      maxDepth |-> MaxSeq([k \in 1 .. Len(nn) |-> getTagDepth(nn[k].node)])
                     + (IF Len(nn) > 0 THEN 1 ELSE 0),
      totalElements |-> SumSeq([k \in 1 .. Len(nn) |-> countTagElements(nn[k].node)]),
      roleCounts |-> MergeRoleCounts(rs, NoRoleCounts)]

TagIdle ==
  /\ tagDoc = NoTagDoc
  /\ tpc = "idle"
  /\ tTasks = <<>>
  /\ tResult = UntaggedResult

TagInit ==
  /\ tagDoc \in TagDocs
  /\ tpc = "start"
  /\ tTasks = <<>>
  /\ tResult = UntaggedResult

\* getMarkInfo: an unmarked document returns at once; otherwise one
\* callback per page is started.
TagStart ==
  /\ tpc = "start"
  /\ IF tagDoc.marked
     THEN /\ tTasks' = [i \in 1 .. Len(tagDoc.pages) |-> NoPageResult]
          /\ tpc' = "awaiting"
     ELSE /\ tpc' = "returned"
          /\ UNCHANGED tTasks
  /\ UNCHANGED <<tagDoc, tResult>>
  /\ UNCHANGED notTag

\* The callback of page i runs to its end, in any order among the pages.
TagPage(i) ==
  /\ tpc \in {"awaiting", "thrown"}
  /\ tTasks[i].st = "pending"
  /\ tTasks' = [tTasks EXCEPT ![i] = PageResult(tagDoc.pages[i])]
  /\ UNCHANGED <<tagDoc, tpc, tResult>>
  /\ UNCHANGED notTag

\* Promise.all rejects on the first rejected callback: the analysis throws.
TagReject ==
  /\ tpc = "awaiting"
  /\ \E i \in 1 .. Len(tTasks) : tTasks[i].st = "failed"
  /\ tpc' = "thrown"
  /\ UNCHANGED <<tagDoc, tTasks, tResult>>
  /\ UNCHANGED notTag

\* Promise.all fulfils: the page results are aggregated and returned.
TagReturnResult ==
  /\ tpc = "awaiting"
  /\ \A i \in 1 .. Len(tTasks) : tTasks[i].st = "done"
  /\ tResult' = TagMerge(tTasks)
  /\ tpc' = "returned"
  /\ UNCHANGED <<tagDoc, tTasks>>
  /\ UNCHANGED notTag

TagNext ==
  \/ TagStart
  \/ \E i \in 1 .. Len(tTasks) : TagPage(i)
  \/ TagReject
  \/ TagReturnResult

\* ------------------------------------------------------- font inventory

\* Resource names of the fonts in a page's /Font dictionary, in entry order.
FontKeys == <<"F1", "F2">>

\* What an entry of the /Font dictionary is: missing, a reference that does
\* not resolve to a dictionary, a font without /BaseFont (named by its key),
\* or a font whose /BaseFont is Helvetica.
FontEntryKinds == {"absent", "unresolved", "noBaseFont", "Helvetica"}

\* A page: whether it has /Resources, and the kind of each font entry.
FontPages ==
  {[resources |-> FALSE, fonts |-> [k \in 1 .. Len(FontKeys) |-> "absent"]]}
  \cup {[resources |-> TRUE, fonts |-> f] :
          f \in [1 .. Len(FontKeys) -> FontEntryKinds]}

FontDocs == UNION {[1 .. n -> FontPages] : n \in 0 .. MaxPages}

\* baseFontObj?.decodeText() ?? fontKey
BaseFontName(key, kind) == IF kind = "noBaseFont" THEN key ELSE kind

FontNames == {FontKeys[k] : k \in 1 .. Len(FontKeys)} \cup {"Helvetica"}

NoFontMap == [n \in FontNames |-> <<>>]

SeqElems(q) == {q[k] : k \in 1 .. Len(q)}

\* A plausible slip: the page is pushed without the includes() check.
AddFontNoIncludesCheck(fm, name, pageNum) ==
  [fm EXCEPT ![name] = Append(fm[name], pageNum)]

\* fontMap.get(baseFontName): push the page onto an existing record unless
\* it is already there, else set a new record with pagesUsed [pageNum].
AddFont(fm, name, pageNum) ==
  IF fm[name] # <<>>
  THEN IF pageNum \in SeqElems(fm[name]) THEN fm
       ELSE [fm EXCEPT ![name] = Append(fm[name], pageNum)]
  ELSE [fm EXCEPT ![name] = <<pageNum>>]

RECURSIVE ScanEntries(_, _, _, _)
\* The loop over fontDict.entries() of one page, from entry k on.
ScanEntries(page, pageNum, k, fm) ==
  IF k > Len(FontKeys) THEN fm
  ELSE IF page.fonts[k] \in {"absent", "unresolved"}
       THEN ScanEntries(page, pageNum, k + 1, fm)
       ELSE ScanEntries(page, pageNum, k + 1,
                        AddFont(fm, BaseFontName(FontKeys[k], page.fonts[k]), pageNum))

FontIdle ==
  /\ fontDoc = <<>>
  /\ fpc = "idle"
  /\ fpage = 0
  /\ fontMap = NoFontMap
  /\ fontScanned = 0

FontInit ==
  /\ fontDoc \in FontDocs
  /\ fpc = "start"
  /\ fpage = 0
  /\ fontMap = NoFontMap
  /\ fontScanned = 0

\* loadWithPdfLib fulfils (the loop starts at the first page) or rejects.
FontLoad ==
  /\ fpc = "start"
  /\ \/ fpc' = "loop" /\ fpage' = 1
     \/ fpc' = "thrown" /\ UNCHANGED fpage
  /\ UNCHANGED <<fontDoc, fontMap, fontScanned>>
  /\ UNCHANGED notFont

\* One iteration of the loop over the pages.
FontScanPage ==
  /\ fpc = "loop"
  /\ fpage <= Len(fontDoc)
  /\ fontMap' = IF fontDoc[fpage].resources
                THEN ScanEntries(fontDoc[fpage], fpage, 1, fontMap)
                ELSE fontMap
  /\ fpage' = fpage + 1
  /\ UNCHANGED <<fontDoc, fpc, fontScanned>>
  /\ UNCHANGED notFont

\* return { fontMap, pagesScanned: pages.length }
FontReturn ==
  /\ fpc = "loop"
  /\ fpage > Len(fontDoc)
  /\ fontScanned' = Len(fontDoc)
  /\ fpc' = "returned"
  /\ UNCHANGED <<fontDoc, fpage, fontMap>>
  /\ UNCHANGED notFont

FontNext ==
  \/ FontLoad
  \/ FontScanPage
  \/ FontReturn

\* ---------------------------------------------------------- page ranges

\* Longest page-range string given to parsePageRange.
MaxLen == 4

\* The characters of the strings: digits, the two separators, white space
\* and a character that belongs to nothing.
PrChars == {"0", "1", "2", "9", "-", ",", " ", "x"}

PrStrings == UNION {[1 .. n -> PrChars] : n \in 0 .. MaxLen}

\* Number.isNaN: what parseInt gives for a string without leading digits.
NaN == -1

RECURSIVE SplitOn(_, _)
\* String.prototype.split(sep) for a one-character separator.
SplitOn(s, sep) ==
  IF \A i \in 1 .. Len(s) : s[i] # sep THEN <<s>>
  ELSE LET i == CHOOSE x \in 1 .. Len(s) :
                   s[x] = sep /\ \A y \in 1 .. x - 1 : s[y] # sep
       IN <<SubSeq(s, 1, i - 1)>> \o SplitOn(Rest(s, i + 1), sep)

RECURSIVE TrimStart(_)
TrimStart(s) == IF s # <<>> /\ Head(s) = " " THEN TrimStart(Tail(s)) ELSE s

RECURSIVE TrimEnd(_)
TrimEnd(s) ==
  IF s # <<>> /\ s[Len(s)] = " " THEN TrimEnd(SubSeq(s, 1, Len(s) - 1)) ELSE s

\* String.prototype.trim
Trim(s) == TrimEnd(TrimStart(s))

\* parseInt(s, 10) of a string without a sign: leading white space is
\* skipped, the longest run of digits is read, what follows is ignored.
parseInt(s) ==
  LET t == TrimStart(s)
      n == CHOOSE k \in 0 .. Len(t) :
             /\ IsDigits(t, 1, k)
             /\ k = Len(t) \/ t[k + 1] \notin Digits
  IN IF n = 0 THEN NaN ELSE DigitsValue(SubSeq(t, 1, n))

\* Math.max and Math.min give NaN when an argument is NaN.
MathMax(a, b) == IF a = NaN \/ b = NaN THEN NaN ELSE IF a >= b THEN a ELSE b

MathMin(a, b) == IF a = NaN \/ b = NaN THEN NaN ELSE IF a <= b THEN a ELSE b

\* A plausible slip: the end of a range is not limited to the document.
RangeEndUnclamped(totalPages, endStr) == parseInt(endStr)

\* const end = Math.min(totalPages, parseInt(endStr, 10))
RangeEnd(totalPages, endStr) == MathMin(totalPages, parseInt(endStr))

\* const start = Math.max(1, parseInt(startStr, 10))
RangeStart(startStr) == MathMax(1, parseInt(startStr))

PrError(code) == [kind |-> "error", code |-> code, pages |-> <<>>]

PrList(pages) == [kind |-> "list", code |-> "", pages |-> pages]

PrNull == [kind |-> "null", code |-> "", pages |-> <<>>]

\* One iteration of the loop over the parts: the pages the part pushes, or
\* the error it throws.
ParsePart(part, totalPages) ==
  LET trimmed == Trim(part)
  IN IF \E i \in 1 .. Len(trimmed) : trimmed[i] = "-"
     THEN LET sp == SplitOn(trimmed, "-")
              start == RangeStart(sp[1])
              end == RangeEnd(totalPages, sp[2])
          IN IF start = NaN \/ end = NaN
             THEN PrError("INVALID_PAGE_RANGE")
             ELSE PrList([i \in 1 .. (end - start + 1) |-> start + i - 1])
     ELSE LET pageNum == parseInt(trimmed)
          IN IF pageNum = NaN \/ pageNum < 1 \/ pageNum > totalPages
             THEN PrError("INVALID_PAGE_NUMBER")
             ELSE PrList(<<pageNum>>)

RECURSIVE ParseParts(_, _, _)
\* The loop over the parts; the first error leaves the function.
ParseParts(parts, totalPages, result) ==
  IF parts = <<>> THEN PrList(result)
  ELSE LET r == ParsePart(Head(parts), totalPages)
       IN IF r.kind = "error" THEN r
          ELSE ParseParts(Tail(parts), totalPages, result \o r.pages)

\* A plausible slip: the collected pages are returned as pushed.
FinishResultAsPushed(result) == result

\* return [...new Set(result)].sort((a, b) => a - b)
FinishResult(result) == SortedSeq(SeqElems(result))

\* parsePageRange(pages, totalPages); an absent pages argument and the
\* empty string both take the first return.
parsePageRange(pages, totalPages) ==
  IF pages = <<>> THEN PrNull
  ELSE LET r == ParseParts(SplitOn(pages, ","), totalPages, <<>>)
       IN IF r.kind = "error" THEN r ELSE PrList(FinishResult(r.pages))

PrIdle ==
  /\ prPages = <<>>
  /\ prTotal = 0
  /\ prpc = "idle"
  /\ prResult = PrNull

PrInit ==
  /\ prPages \in PrStrings
  /\ prTotal \in 1 .. MaxPages
  /\ prpc = "call"
  /\ prResult = PrNull

\* The call returns null or a page list.
PrReturn ==
  /\ prpc = "call"
  /\ parsePageRange(prPages, prTotal).kind # "error"
  /\ prResult' = parsePageRange(prPages, prTotal)
  /\ prpc' = "returned"
  /\ UNCHANGED <<prPages, prTotal>>
  /\ UNCHANGED notPr

\* The call throws a PdfReaderError.
PrThrow ==
  /\ prpc = "call"
  /\ parsePageRange(prPages, prTotal).kind = "error"
  /\ prResult' = parsePageRange(prPages, prTotal)
  /\ prpc' = "thrown"
  /\ UNCHANGED <<prPages, prTotal>>
  /\ UNCHANGED notPr

PrNext ==
  \/ PrReturn
  \/ PrThrow

\* -------------------------------------------------------------- images

\* Most operators in the operator lists of one document's pages.
MaxOps == 2

\* An operator of a page's operator list: an image XObject whose pixel data
\* is there, is missing (objs.get gives nothing) or cannot be read (objs.get
\* throws), an inline image, or any other operator.
ImageOps ==
  {[fn |-> "paintImageXObject", data |-> d] : d \in {"data", "none", "throws"}}
  \cup {[fn |-> "paintInlineImageXObject", data |-> "none"],
        [fn |-> "other", data |-> "none"]}

OpLists(k) == UNION {[1 .. n -> ImageOps] : n \in 0 .. k}

RECURSIVE ImageDocsOf(_, _)
\* The documents of n pages with at most k operators in all.
ImageDocsOf(n, k) ==
  IF n = 0 THEN {<<>>}
  ELSE UNION {{<<ops>> \o rest : rest \in ImageDocsOf(n - 1, k - Len(ops))} :
                ops \in OpLists(k)}

ImageDocs == UNION {ImageDocsOf(n, MaxOps) : n \in 1 .. MaxPages}

\* The page selections of a document: any ascending list of its pages.
PageSelections(d) == {SortedSeq(S) : S \in SUBSET (1 .. Len(d))}

\* The loop of one countImagesFromDoc page task.
CountPage(ops) ==
  Cardinality({i \in 1 .. Len(ops) :
                 ops[i].fn \in {"paintImageXObject", "paintInlineImageXObject"}})

\* countImagesFromDoc: the sum of the page counts.
countImagesFromDoc(d, sel) ==
  SumSeq([k \in 1 .. Len(sel) |-> CountPage(d[sel[k]])])

\* pageDetected of one extractImages page task.
PageDetected(ops) ==
  Cardinality({i \in 1 .. Len(ops) : ops[i].fn = "paintImageXObject"})

RECURSIVE PageImages(_, _, _, _)
\* pageImages of one extractImages page task, from operator i on: an image
\* is pushed when its data is there; imageIndex counts every image XObject.
PageImages(ops, pageNum, i, imageIndex) ==
  IF i > Len(ops) THEN <<>>
  ELSE IF ops[i].fn # "paintImageXObject"
       THEN PageImages(ops, pageNum, i + 1, imageIndex)
       ELSE (IF ops[i].data = "data"
             THEN <<[page |-> pageNum, index |-> imageIndex]>>
             ELSE <<>>)
            \o PageImages(ops, pageNum, i + 1, imageIndex + 1)

\* The result of extractImages.
ExtractResult(d, sel) ==
  LET images == Flatten([k \in 1 .. Len(sel) |->
                           PageImages(d[sel[k]], sel[k], 1, 0)])
      detectedCount == SumSeq([k \in 1 .. Len(sel) |-> PageDetected(d[sel[k]])])
  IN [images |-> images,
      detectedCount |-> detectedCount,
      extractedCount |-> Len(images),
      skippedCount |-> detectedCount - Len(images)]

NoExtractResult ==
  [images |-> <<>>, detectedCount |-> 0, extractedCount |-> 0, skippedCount |-> 0]

ImgIdle ==
  /\ imgDoc = <<>>
  /\ imgSel = <<>>
  /\ cntpc = "idle"
  /\ cntResult = 0
  /\ extpc = "idle"
  /\ extResult = NoExtractResult

ImgInit ==
  /\ imgDoc \in ImageDocs
  /\ imgSel \in PageSelections(imgDoc)
  /\ cntpc = "call"
  /\ cntResult = 0
  /\ extpc = "call"
  /\ extResult = NoExtractResult

\* countImages returns.
CountImages ==
  /\ cntpc = "call"
  /\ cntResult' = countImagesFromDoc(imgDoc, imgSel)
  /\ cntpc' = "returned"
  /\ UNCHANGED <<imgDoc, imgSel, extpc, extResult>>
  /\ UNCHANGED notImg

\* loadDocument, getPage or getOperatorList rejects: countImages rejects.
CountImagesFail ==
  /\ cntpc = "call"
  /\ cntpc' = "thrown"
  /\ UNCHANGED <<imgDoc, imgSel, cntResult, extpc, extResult>>
  /\ UNCHANGED notImg

\* The pixel data a selected page's image operator finds: "throws" is an
\* objs.get that throws.
SelectedImageData(d, sel) ==
  {d[sel[k]][i].data :
     <<k, i>> \in {ki \in (1 .. Len(sel)) \X (1 .. MaxOps) :
                     /\ ki[2] <= Len(d[sel[ki[1]]])
                     /\ d[sel[ki[1]]][ki[2]].fn = "paintImageXObject"}}

\* A plausible slip: objs.get is called outside a try block.
ImageErrorEscapesNoCatch(d, sel) == "throws" \in SelectedImageData(d, sel)

\* try { ... objs.get(imgName) ... } catch { skip }: no error raised while
\* reading one image leaves the page task.
ImageErrorEscapes(d, sel) == FALSE

\* extractImages runs its page tasks and returns.
ExtractImages ==
  /\ extpc = "call"
  /\ IF ImageErrorEscapes(imgDoc, imgSel)
     THEN extpc' = "thrownOnImage" /\ UNCHANGED extResult
     ELSE extpc' = "returned" /\ extResult' = ExtractResult(imgDoc, imgSel)
  /\ UNCHANGED <<imgDoc, imgSel, cntpc, cntResult>>
  /\ UNCHANGED notImg

\* loadDocument, getPage or getOperatorList rejects: extractImages rejects.
ExtractImagesFail ==
  /\ extpc = "call"
  /\ extpc' = "thrown"
  /\ UNCHANGED <<imgDoc, imgSel, cntpc, cntResult, extResult>>
  /\ UNCHANGED notImg

ImgNext ==
  \/ CountImages
  \/ CountImagesFail
  \/ ExtractImages
  \/ ExtractImagesFail

\* ------------------------------------------------------- loading bytes

\* Maximum PDF file size in bytes (50MB).
MAX_FILE_SIZE == 52428800

\* Byte sizes of the modelled inputs, around the cap.
InputSizes ==
  {0, MAX_FILE_SIZE - 1, MAX_FILE_SIZE, MAX_FILE_SIZE + 1, 2 * MAX_FILE_SIZE}

\* What response.headers.get('content-length') gives: null or the empty
\* string, text that is no number, or a number that need not be the size
\* of the body.
ContentLengths == {<<>>, <<"x">>} \cup {NatToStr(n) : n \in InputSizes}

NoHeader == <<>>

FileInputs ==
  {[size |-> n, pathOk |-> p, url |-> "none", statusOk |-> TRUE,
    contentLength |-> NoHeader] : n \in InputSizes, p \in BOOLEAN}

UrlInputs ==
  {[size |-> n, pathOk |-> TRUE, url |-> u, statusOk |-> ok,
    contentLength |-> h] :
     n \in InputSizes, u \in {"invalid", "ftp:", "https:"}, ok \in BOOLEAN,
     h \in ContentLengths}

NoInput ==
  [size |-> 0, pathOk |-> TRUE, url |-> "none", statusOk |-> TRUE,
   contentLength |-> NoHeader]

LdIdle ==
  /\ ldSource = "none"
  /\ ldInput = NoInput
  /\ ldpc = "idle"
  /\ ldError = ""
  /\ parserInput = <<>>

LdInit ==
  /\ \/ ldSource = "file" /\ ldInput \in FileInputs /\ ldpc = "validatePath"
     \/ ldSource = "url" /\ ldInput \in UrlInputs /\ ldpc = "parseUrl"
  /\ ldError = ""
  /\ parserInput = <<>>

LdGoto(to) ==
  /\ ldpc' = to
  /\ UNCHANGED <<ldSource, ldInput, ldError, parserInput>>
  /\ UNCHANGED notLd

LdThrow(code) ==
  /\ ldpc' = "thrown"
  /\ ldError' = code
  /\ UNCHANGED <<ldSource, ldInput, parserInput>>
  /\ UNCHANGED notLd

\* A plausible slip: the size test is left out.
TooLargeNeverChecked(size) == FALSE

\* size > MAX_FILE_SIZE, of fileStats.size and of buffer.byteLength.
TooLarge(size) == size > MAX_FILE_SIZE

\* readPdfFile: validatePdfPath(filePath)
ReadValidatePath ==
  /\ ldpc = "validatePath"
  /\ IF ldInput.pathOk THEN LdGoto("stat") ELSE LdThrow("INVALID_PATH")

\* readPdfFile: await stat(filePath) and the size test.
ReadStat ==
  /\ ldpc = "stat"
  /\ \/ LdThrow("ENOENT")
     \/ IF TooLarge(ldInput.size)
        THEN LdThrow("FILE_TOO_LARGE")
        ELSE LdGoto("readFile")

\* readPdfFile: await readFile(filePath); the buffer goes to the parser.
ReadFile ==
  /\ ldpc = "readFile"
  /\ \/ LdThrow("EIO")
     \/ LdGoto("parse")

\* fetchPdfFromUrl: new URL(url)
FetchParseUrl ==
  /\ ldpc = "parseUrl"
  /\ IF ldInput.url = "invalid"
     THEN LdThrow("INVALID_URL")
     ELSE LdGoto("protocol")

\* fetchPdfFromUrl: only http: and https: are fetched.
FetchProtocol ==
  /\ ldpc = "protocol"
  /\ IF ldInput.url \notin {"http:", "https:"}
     THEN LdThrow("UNSUPPORTED_PROTOCOL")
     ELSE LdGoto("fetch")

\* fetchPdfFromUrl: await fetch(url, ...) and the response.ok test.
FetchResponse ==
  /\ ldpc = "fetch"
  /\ \/ LdThrow("FETCH_REJECTED")
     \/ IF ldInput.statusOk
        THEN LdGoto("contentLength")
        ELSE LdThrow("FETCH_FAILED")

\* fetchPdfFromUrl: the content-length pre-check.
FetchContentLength ==
  /\ ldpc = "contentLength"
  /\ IF /\ ldInput.contentLength # <<>>
        /\ parseInt(ldInput.contentLength) # NaN
        /\ TooLarge(parseInt(ldInput.contentLength))
     THEN LdThrow("FILE_TOO_LARGE")
     ELSE LdGoto("body")

\* fetchPdfFromUrl: await response.arrayBuffer() and the byteLength test.
FetchBody ==
  /\ ldpc = "body"
  /\ \/ LdThrow("FETCH_REJECTED")
     \/ IF TooLarge(ldInput.size)
        THEN LdThrow("FILE_TOO_LARGE")
        ELSE LdGoto("parse")

\* getDocument({ data }) / PDFDocument.load(data): the parser is given the
\* buffer, and loads the document or rejects.
GetDocument ==
  /\ ldpc = "parse"
  /\ parserInput' = Append(parserInput, ldInput.size)
  /\ \/ ldpc' = "loaded" /\ UNCHANGED ldError
     \/ ldpc' = "thrown" /\ ldError' = "INVALID_PDF"
  /\ UNCHANGED <<ldSource, ldInput>>
  /\ UNCHANGED notLd

LdNext ==
  \/ ReadValidatePath
  \/ ReadStat
  \/ ReadFile
  \/ FetchParseUrl
  \/ FetchProtocol
  \/ FetchResponse
  \/ FetchContentLength
  \/ FetchBody
  \/ GetDocument

\* ------------------------------------------------------ batch processing

\* Most items given to one call of processInBatches.
MaxBatchItems == 4

\* const effectiveBatchSize = Math.max(1, batchSize), batchSize a whole
\* number.
effectiveBatchSize == IF bpBatchSize >= 1 THEN bpBatchSize ELSE 1

\* items.slice(i, i + effectiveBatchSize), as 1-based item numbers.
Batch ==
  {k \in 1 .. bpItems : bpI < k /\ k <= bpI + effectiveBatchSize}

\* A plausible slip: the loop goes on as soon as one processor is done.
BatchSettledOnFirst(batch) == \E k \in batch : bpTask[k] = "done"

\* await Promise.all(...) resumes once every promise of the batch is
\* fulfilled.
BatchSettled(batch) == \A k \in batch : bpTask[k] = "done"

BpIdle ==
  /\ bpItems = 0
  /\ bpBatchSize = 0
  /\ bpI = 0
  /\ bppc = "idle"
  /\ bpTask = <<>>
  /\ bpResults = <<>>

BpInit ==
  /\ bpItems \in 0 .. MaxBatchItems
  /\ bpBatchSize \in -1 .. MaxBatchItems + 1
  /\ bpI = 0
  /\ bppc = "loop"
  /\ bpTask = [k \in 1 .. bpItems |-> "idle"]
  /\ bpResults = <<>>

\* The loop test holds: batch.map(processor) starts every processor of the
\* batch, and the function awaits them.
BatchStart ==
  /\ bppc = "loop"
  /\ bpI < bpItems
  /\ bpTask' = [k \in 1 .. bpItems |->
                  IF k \in Batch THEN "running" ELSE bpTask[k]]
  /\ bppc' = "await"
  /\ UNCHANGED <<bpItems, bpBatchSize, bpI, bpResults>>
  /\ UNCHANGED notBp

\* One processor's promise is fulfilled.
ProcessorDone(k) ==
  /\ bpTask[k] = "running"
  /\ bpTask' = [bpTask EXCEPT ![k] = "done"]
  /\ UNCHANGED <<bpItems, bpBatchSize, bpI, bppc, bpResults>>
  /\ UNCHANGED notBp

\* One processor's promise is rejected.
ProcessorFail(k) ==
  /\ bpTask[k] = "running"
  /\ bpTask' = [bpTask EXCEPT ![k] = "failed"]
  /\ UNCHANGED <<bpItems, bpBatchSize, bpI, bppc, bpResults>>
  /\ UNCHANGED notBp

\* Promise.all is fulfilled: results.push(...batchResults); i += size.
BatchResolve ==
  /\ bppc = "await"
  /\ BatchSettled(Batch)
  /\ bpResults' = bpResults \o SortedSeq(Batch)
  /\ bpI' = bpI + effectiveBatchSize
  /\ bppc' = "loop"
  /\ UNCHANGED <<bpItems, bpBatchSize, bpTask>>
  /\ UNCHANGED notBp

\* Promise.all is rejected by the first rejection: the await throws and
\* processInBatches rejects, whatever the other processors are doing.
BatchReject ==
  /\ bppc = "await"
  /\ \E k \in Batch : bpTask[k] = "failed"
  /\ bppc' = "thrown"
  /\ UNCHANGED <<bpItems, bpBatchSize, bpI, bpTask, bpResults>>
  /\ UNCHANGED notBp

\* The loop test fails: return results.
BatchReturn ==
  /\ bppc = "loop"
  /\ bpI >= bpItems
  /\ bppc' = "returned"
  /\ UNCHANGED <<bpItems, bpBatchSize, bpI, bpTask, bpResults>>
  /\ UNCHANGED notBp

BpNext ==
  \/ BatchStart
  \/ \E k \in 1 .. bpItems : ProcessorDone(k)
  \/ \E k \in 1 .. bpItems : ProcessorFail(k)
  \/ BatchResolve
  \/ BatchReject
  \/ BatchReturn

\* ------------------------------------------------------ text reconstruction

\* Most text runs on a modelled page.
MaxRuns == 3

\* A text run: transform[5] (y), transform[4] (x) and str.  The modelled
\* runs carry a text that tells their y: "a" at 0, "b" at 2, "c" at 4.
Runs ==
  {[y |-> 2 * k, x |-> 5 * h, str |-> <<"a", "b", "c">>[k + 1]] :
     k \in 0 .. 2, h \in 0 .. 2}

RunSeqs == UNION {[1 .. n -> Runs] : n \in 0 .. MaxRuns}

Abs(n) == IF n < 0 THEN -n ELSE n

\* The comparison function handed to items.sort.
compare(a, b) ==
  LET yDiff == b.y - a.y
  IN IF Abs(yDiff) > 2 THEN yDiff ELSE a.x - b.x

\* The permutations of the positions of a sequence.
Perms(s) ==
  {p \in [1 .. Len(s) -> 1 .. Len(s)] :
     \A i, j \in 1 .. Len(s) : p[i] = p[j] => i = j}

\* Whether the comparison function is a consistent comparator for these
\* items (ECMAScript, Array.prototype.sort): equality and precedence under
\* it are transitive.
Consistent(s) ==
  \A i, j, k \in 1 .. Len(s) :
    /\ (compare(s[i], s[j]) = 0 /\ compare(s[j], s[k]) = 0)
         => compare(s[i], s[k]) = 0
    /\ (compare(s[i], s[j]) < 0 /\ compare(s[j], s[k]) < 0)
         => compare(s[i], s[k]) < 0

\* p puts s in ascending order of the comparison function, items that
\* compare equal staying in their original order.
StableSorted(s, p) ==
  \A i, j \in 1 .. Len(s) :
    i < j => \/ compare(s[p[i]], s[p[j]]) < 0
             \/ compare(s[p[i]], s[p[j]]) = 0 /\ p[i] < p[j]

\* A plausible slip: the items are left in the order the page gave them.
SortOutcomesUnsorted(s) == {s}

\* items.sort(compare): the stable sorted order when the comparator is
\* consistent; otherwise the order is implementation-defined, some
\* permutation of the items.
SortOutcomes(s) ==
  {[i \in 1 .. Len(s) |-> s[p[i]]] :
     p \in IF Consistent(s) THEN {q \in Perms(s) : StableSorted(s, q)}
           ELSE Perms(s)}

\* A plausible slip: every run is compared with the first run's y.
NextLastYKept(lastY, y) == lastY

\* lastY = y at the end of the loop body.
NextLastY(lastY, y) == y

RECURSIVE GroupLines(_, _, _, _, _)
\* The grouping loop from item k on: lines pushed so far, the current line
\* and lastY; at the end the current line is pushed if it is not empty.
GroupLines(items, k, lastY, lines, currentLine) ==
  IF k > Len(items)
  THEN IF currentLine # <<>> THEN Append(lines, currentLine) ELSE lines
  ELSE LET y == items[k].y
           newLine == Abs(y - lastY) > 2
       IN GroupLines(items, k + 1, NextLastY(lastY, y),
                     IF newLine /\ currentLine # <<>>
                     THEN Append(lines, currentLine) ELSE lines,
                     IF newLine THEN <<items[k]>>
                     ELSE Append(currentLine, items[k]))

RECURSIVE Join(_, _)
\* Array.prototype.join(sep) on strings held as sequences of characters.
Join(strs, sep) ==
  IF strs = <<>> THEN <<>>
  ELSE IF Len(strs) = 1 THEN strs[1]
  ELSE strs[1] \o <<sep>> \o Join(Tail(strs), sep)

\* lines.join('\n') of the lines' currentLine.join(' ').
TextOf(lines) ==
  Join([l \in 1 .. Len(lines) |->
          Join([k \in 1 .. Len(lines[l]) |-> <<lines[l][k].str>>], " ")],
       "\n")

RcIdle ==
  /\ rcItems = <<>>
  /\ rcInput = <<>>
  /\ rcpc = "idle"
  /\ rcLines = <<>>
  /\ rcText = <<>>

RcInit ==
  /\ rcInput \in RunSeqs
  /\ rcItems = rcInput
  /\ rcpc = "start"
  /\ rcLines = <<>>
  /\ rcText = <<>>

\* if (items.length === 0) return ''
ReconEmpty ==
  /\ rcpc = "start"
  /\ rcItems = <<>>
  /\ rcpc' = "returned"
  /\ UNCHANGED <<rcItems, rcInput, rcLines, rcText>>
  /\ UNCHANGED notRc

\* items.sort(...)
ReconSort ==
  /\ rcpc = "start"
  /\ rcItems # <<>>
  /\ rcItems' \in SortOutcomes(rcItems)
  /\ rcpc' = "sorted"
  /\ UNCHANGED <<rcInput, rcLines, rcText>>
  /\ UNCHANGED notRc

\* The grouping loop and the return.
ReconGroup ==
  /\ rcpc = "sorted"
  /\ rcLines' = GroupLines(rcItems, 1, rcItems[1].y, <<>>, <<>>)
  /\ rcText' = TextOf(rcLines')
  /\ rcpc' = "returned"
  /\ UNCHANGED <<rcItems, rcInput>>
  /\ UNCHANGED notRc

RcNext ==
  \/ ReconEmpty
  \/ ReconSort
  \/ ReconGroup

\* ------------------------------------------------------ specifications

CallIdle ==
  /\ op = "idle"
  /\ pageNumbers = <<>>
  /\ pc = "idle"
  /\ handles = <<>>
  /\ tasks = <<>>
  /\ completion = <<>>
  /\ out = NoOut
  /\ returned = "none"

\* One call of one operation: handles, fan-out, merge.
Init == CallInit /\ ValIdle /\ DiffIdle /\ SigIdle /\ TagIdle /\ FontIdle /\ PrIdle /\ ImgIdle /\ LdIdle /\ BpIdle /\ RcIdle

Next == CallNext

Spec == Init /\ [][Next]_vars

\* One run of validateTagged or validateMetadata on an analysed document.
InitValidate == CallIdle /\ ValInit /\ DiffIdle /\ SigIdle /\ TagIdle /\ FontIdle /\ PrIdle /\ ImgIdle /\ LdIdle /\ BpIdle /\ RcIdle

NextValidate == ValNext

SpecValidate == InitValidate /\ [][NextValidate]_vars

\* One call of compareStructure on two files.
InitDiff == CallIdle /\ ValIdle /\ DiffInit /\ SigIdle /\ TagIdle /\ FontIdle /\ PrIdle /\ ImgIdle /\ LdIdle /\ BpIdle /\ RcIdle

NextDiff == DiffNext

SpecDiff == InitDiff /\ [][NextDiff]_vars

\* One call of analyzeSignatures on one document.
InitSig == CallIdle /\ ValIdle /\ DiffIdle /\ SigInit /\ TagIdle /\ FontIdle /\ PrIdle /\ ImgIdle /\ LdIdle /\ BpIdle /\ RcIdle

NextSig == SigNext

SpecSig == InitSig /\ [][NextSig]_vars

\* One call of analyzeTagsFromDoc on one document.
InitTags == CallIdle /\ ValIdle /\ DiffIdle /\ SigIdle /\ TagInit /\ FontIdle /\ PrIdle /\ ImgIdle /\ LdIdle /\ BpIdle /\ RcIdle

NextTags == TagNext

SpecTags == InitTags /\ [][NextTags]_vars

\* One call of analyzeFontsWithPdfLib on one document.
InitFonts == CallIdle /\ ValIdle /\ DiffIdle /\ SigIdle /\ TagIdle /\ FontInit /\ PrIdle /\ ImgIdle /\ LdIdle /\ BpIdle /\ RcIdle

NextFonts == FontNext

SpecFonts == InitFonts /\ [][NextFonts]_vars

\* One call of parsePageRange on one string.
InitPageRange == CallIdle /\ ValIdle /\ DiffIdle /\ SigIdle /\ TagIdle /\ FontIdle /\ PrInit /\ ImgIdle /\ LdIdle /\ BpIdle /\ RcIdle

NextPageRange == PrNext

SpecPageRange == InitPageRange /\ [][NextPageRange]_vars

\* countImages and extractImages called on the same document and pages.
InitImages == CallIdle /\ ValIdle /\ DiffIdle /\ SigIdle /\ TagIdle /\ FontIdle /\ PrIdle /\ ImgInit /\ LdIdle /\ BpIdle /\ RcIdle

NextImages == ImgNext

SpecImages == InitImages /\ [][NextImages]_vars

\* One load of one document, from a local file or from a URL.
InitLoad == CallIdle /\ ValIdle /\ DiffIdle /\ SigIdle /\ TagIdle /\ FontIdle /\ PrIdle /\ ImgIdle /\ LdInit /\ BpIdle /\ RcIdle

NextLoad == LdNext

SpecLoad == InitLoad /\ [][NextLoad]_vars

\* One call of processInBatches.
InitBatches == CallIdle /\ ValIdle /\ DiffIdle /\ SigIdle /\ TagIdle /\ FontIdle /\ PrIdle /\ ImgIdle /\ LdIdle /\ BpInit /\ RcIdle

NextBatches == BpNext

SpecBatches == InitBatches /\ [][NextBatches]_vars

\* One call of extractPageText on one page.
InitRecon == CallIdle /\ ValIdle /\ DiffIdle /\ SigIdle /\ TagIdle /\ FontIdle /\ PrIdle /\ ImgIdle /\ LdIdle /\ BpIdle /\ RcInit

NextRecon == RcNext

SpecRecon == InitRecon /\ [][NextRecon]_vars

\* ------------------------------------------ handle lifecycle and fan-out

\* The operation that opened handle h has returned to its caller: the call
\* itself, or for compareStructure the sibling operation that loaded it.
OwnerReturned(h) ==
  IF op = "compareStructure"
  THEN Len(tasks) >= h /\ Settled(tasks[h])
  ELSE returned # "none"

\* Sibling analyses i and j are both reading from the same handle right now.
ConcurrentReaders(i, j) ==
  /\ i # j
  /\ tasks[i].kind = "analysis" /\ tasks[j].kind = "analysis"
  /\ tasks[i].st \in {"getPage", "read"} /\ tasks[j].st \in {"getPage", "read"}
  /\ tasks[i].h = tasks[j].h

\* C1 as stated: once the operation that opened a document handle has
\* returned (normally or by throwing), that handle is no longer open,
\* whichever adapter it belongs to.
C1_EveryHandleReleased ==
  \A h \in 1 .. Len(handles) : OwnerReturned(h) => handles[h].st # "open"

\* C1 amended: once the operation that opened a pdfjs (rendering adapter)
\* document handle has returned, normally or by throwing, that handle has
\* been destroyed; pdf-lib documents have no release call and stay open.
C1_PdfjsHandleReleased ==
  \A h \in 1 .. Len(handles) :
    (handles[h].kind = "pdfjs" /\ OwnerReturned(h)) => handles[h].st # "open"

\* searchText opened its handle, a page task failed, and the call has thrown.
C1_Witness ==
  /\ op = "searchText"
  /\ returned = "error"
  /\ \E i \in 1 .. Len(tasks) : tasks[i].st = "failed"
  /\ handles[1].st = "destroyed"

\* C2: when a page-range operation returns, its merged items are in
\* ascending page order and, within a page, in ascending discovery order,
\* and none is missing, whatever order the page tasks completed in.
C2_MergedInPageOrder ==
  (returned = "ok" /\ op \in PageOps) =>
    /\ Len(out.items) = out.total
    /\ \A a, b \in 1 .. Len(out.items) :
         a < b =>
           \/ out.items[a][1] < out.items[b][1]
           \/ /\ out.items[a][1] = out.items[b][1]
              /\ out.items[a][2] < out.items[b][2]

\* searchText over two pages returned although page 2 completed before page
\* 1, with several matches on a page and matches on both pages.
C2_Witness ==
  /\ op = "searchText"
  /\ returned = "ok"
  /\ completion = <<2, 1>>
  /\ Len(out.items) >= 3
  /\ out.items[Len(out.items)][1] = 2
  /\ out.items[1][1] = 1

\* C3 as stated: two sibling analyses read one handle concurrently only in
\* the tag-validation path.
C3_OnlyTagValidationShares ==
  \A i, j \in 1 .. Len(tasks) : ConcurrentReaders(i, j) => op = "validateTagged"

\* C3 amended: two sibling analyses read one handle concurrently only in the
\* tag-validation path and in the summarize tool; the differ's six analyses
\* each read a handle of their own.
C3_OnlyValidateAndSummarizeShare ==
  \A i, j \in 1 .. Len(tasks) :
    ConcurrentReaders(i, j) => op \in {"validateTagged", "summarize"}

\* Tag-tree analysis and image counting are both reading the one handle.
C3_Witness ==
  /\ op = "validateTagged"
  /\ Len(tasks) = 2
  /\ ConcurrentReaders(1, 2)
  /\ tasks[1].st = "read" /\ tasks[2].st = "read"
  /\ handles[1].st = "open"

\* --------------------------------------------------- check-runner results

\* C4: tag validation of a document not marked tagged stops after check 1
\* with totalChecks = 1, passed = 0, failed = 1 and exactly one issue, an
\* error with code TAG-001; checks 2 to 8 never run.
C4_UntaggedStopsAfterCheck1 ==
  (runner = "tagged" /\ ~tagsAnalysis.isTagged) =>
    /\ vpc = 1
    /\ Len(issues) <= 1
    /\ vdone =>
         /\ totalChecks = 1 /\ passed = 0 /\ failed = 1 /\ warnings = 0
         /\ Len(issues) = 1
         /\ issues[1].severity = "error"
         /\ issues[1].code = "TAG-001"

\* validateTagged has returned for an untagged document.
C4_Witness ==
  /\ runner = "tagged"
  /\ ~tagsAnalysis.isTagged
  /\ vdone
  /\ summary = "not tagged"
  /\ totalChecks = 1

\* C5: in both runners every executed check has appended one issue and
\* incremented one counter: totalChecks = number of issues = passed + failed
\* + warnings, failed = error issues, warnings = warning issues, passed =
\* info issues, after every check and so at the end of the run.
C5_CountersMatchIssues ==
  /\ totalChecks = Len(issues)
  /\ totalChecks = passed + failed + warnings
  /\ failed = CountSeverity(issues, "error")
  /\ warnings = CountSeverity(issues, "warning")
  /\ passed = CountSeverity(issues, "info")

\* A full tag validation that ended with the table check warning about
\* missing rows, and with passes, failures and warnings all present.
C5_Witness ==
  /\ runner = "tagged"
  /\ vdone
  /\ totalChecks = 8
  /\ tagsAnalysis.roleCounts["Table"] > 0
  /\ tagsAnalysis.roleCounts["TR"] = 0
  /\ passed > 0 /\ failed > 0 /\ warnings > 0

\* C6: metadata validation never short-circuits: when it returns it has
\* exactly 10 issues, META-001 to META-010 in ascending order, and passed +
\* failed + warnings = totalChecks = 10.
C6_MetadataTenChecks ==
  (runner = "metadata" /\ vdone) =>
    /\ [k \in 1 .. Len(issues) |-> issues[k].code] =
         <<"META-001", "META-002", "META-003", "META-004", "META-005",
           "META-006", "META-007", "META-008", "META-009", "META-010">>
    /\ totalChecks = 10
    /\ passed + failed + warnings = 10

\* validateMetadata has returned for a document with no title and no
\* creation date: a failure and a warning among the ten.
C6_Witness ==
  /\ runner = "metadata"
  /\ vdone
  /\ meta.title = ""
  /\ meta.creationDate = <<>>
  /\ failed = 1
  /\ warnings > 0

\* A PDF native date as the documentation of isValidPdfDate describes it:
\* D:YYYY, then up to five two-digit fields in order, then, after the
\* seconds, a timezone indicator '+', '-' or 'Z' with optional HH'mm'.
NativeDate(s) ==
  /\ Len(s) >= 6
  /\ s[1] = "D" /\ s[2] = ":"
  /\ IsDigits(s, 3, 6)
  /\ \E k \in 0 .. 5 :
       /\ IsDigits(s, 7, 6 + 2 * k)
       /\ LET z == Rest(s, 7 + 2 * k)
          IN \/ z = <<>>
             \/ /\ k = 5
                /\ z[1] \in {"+", "-", "Z"}
                /\ \/ Len(z) = 1
                   \/ /\ Len(z) \in {6, 7}
                      /\ IsDigits(z, 2, 3) /\ z[4] = "'" /\ IsDigits(z, 5, 6)
                      /\ (Len(z) = 7 => z[7] = "'")

\* An ISO-8601 date, or date and time: YYYY-MM-DD, optionally followed by
\* THH:mm, optional seconds and an optional offset or Z.
IsoDateTime(s) ==
  /\ Len(s) >= 10
  /\ IsDigits(s, 1, 4) /\ s[5] = "-" /\ IsDigits(s, 6, 7) /\ s[8] = "-"
  /\ IsDigits(s, 9, 10)
  /\ (Len(s) = 10 \/ MatchIsoTime(Rest(s, 11)))

\* C22: once check 3 of validateMetadata has run on a document with a
\* creation date, its META-003 issue is the passing one exactly when the
\* date is a PDF native date or an ISO-8601 date/time, and the
\* non-conforming warning otherwise.
C22_DateAcceptedIffConforming ==
  (runner = "metadata" /\ vpc > 3 /\ meta.creationDate # <<>>) =>
    /\ issues[3].code = "META-003"
    /\ (issues[3].severity = "info") <=>
         (NativeDate(meta.creationDate) \/ IsoDateTime(meta.creationDate))
    /\ (issues[3].severity = "warning") <=>
         ~(NativeDate(meta.creationDate) \/ IsoDateTime(meta.creationDate))

\* L: the levels i in 1..6 for which role Hi occurs.
LevelsFound == {i \in 1 .. 6 : tagsAnalysis.roleCounts[HeadingRole(i)] > 0}

\* C29: once check 4 of validateTagged has run, its issue is the "no
\* headings" warning when no Hi and no H occurs, a pass when only H occurs,
\* and with some Hi a pass exactly when the levels found are 1..max, else
\* a warning that lists the levels found.
C29_HeadingCheck ==
  (runner = "tagged" /\ vpc > 4) =>
    /\ issues[4].code = "TAG-004"
    /\ issues[4].severity \in {"info", "warning"}
    /\ (LevelsFound = {} /\ tagsAnalysis.roleCounts["H"] = 0) =>
         /\ issues[4].severity = "warning"
         /\ issues[4].message = "No heading tags found"
    /\ (LevelsFound = {} /\ tagsAnalysis.roleCounts["H"] > 0) =>
         issues[4].severity = "info"
    /\ LevelsFound # {} =>
         /\ (issues[4].severity = "info") <=>
              (\E m \in 1 .. 6 : LevelsFound = 1 .. m)
         /\ issues[4].severity = "warning" =>
              /\ issues[4].message = "Heading hierarchy has gaps"
              /\ issues[4].levels = SortedSeq(LevelsFound)

\* H2 and H3 without H1: a warning that lists levels 2 and 3.
C29_Witness ==
  /\ runner = "tagged"
  /\ vpc > 4
  /\ LevelsFound = {2, 3}
  /\ issues[4].severity = "warning"
  /\ issues[4].levels = <<2, 3>>

\* C30: once check 5 of validateTagged has run, with I the image count and
\* F the number of Figure tags, its issue is an error when I > 0 and F = 0,
\* a warning when I > 0 and 0 < F < I, and a pass when F >= I or I = 0.
C30_FigureCheck ==
  (runner = "tagged" /\ vpc > 5) =>
    LET F == tagsAnalysis.roleCounts["Figure"]
        I == imageCount
    IN /\ issues[5].code = "TAG-005"
       /\ (I > 0 /\ F = 0) => issues[5].severity = "error"
       /\ (I > 0 /\ 0 < F /\ F < I) => issues[5].severity = "warning"
       /\ (F >= I \/ I = 0) => issues[5].severity = "info"

\* As many Figure tags as images: a pass.
C30_Witness ==
  /\ runner = "tagged"
  /\ vpc > 5
  /\ imageCount = 2
  /\ tagsAnalysis.roleCounts["Figure"] = 2
  /\ issues[5].severity = "info"

\* ------------------------------------------------------ differ results

\* C7: every diff entry has status "match" exactly when its two values are
\* the same string, character for character, and "differ" otherwise.
C7_StatusIsStringEquality ==
  dpc = "done" =>
    \A k \in 1 .. Len(diffs) :
      /\ diffs[k].status \in {"match", "differ"}
      /\ (diffs[k].status = "match") <=> (diffs[k].file1Value = diffs[k].file2Value)

\* A comparison whose versions "1.4" and "1.40" are numerically equal but
\* differ as strings, and whose unequal sizes format to the same string.
C7_Witness ==
  /\ dpc = "done"
  /\ Len(diffs) = 11
  /\ diffs[2].file1Value = <<"1", ".", "4">>
  /\ diffs[2].file2Value = <<"1", ".", "4", "0">>
  /\ diffs[2].status = "differ"
  /\ file1.fileSize # file2.fileSize
  /\ diffs[8].status = "match"

\* C8: a file compared against itself yields "match" for each of the eleven
\* diff entries.
C8_SelfCompareAllMatch ==
  (dpc = "done" /\ file1 = file2) =>
    /\ Len(diffs) = 11
    /\ \A k \in 1 .. Len(diffs) : diffs[k].status = "match"
    /\ dsummary.diffCount = 0

\* A tagged, unencrypted file with pages and no version was compared with
\* itself.
C8_Witness ==
  /\ dpc = "done"
  /\ file1 = file2
  /\ file1.isTagged /\ ~file1.isEncrypted
  /\ file1.totalPages > 0
  /\ file1.pdfVersion = <<>>
  /\ dsummary.matchCount = 11

\* ------------------------------------------------- signature results

\* C9 as stated: a recorded signature field is reported signed exactly when
\* its V entry is present and resolves to a dictionary.
C9_SignedIffResolvesToDict ==
  \A k \in 1 .. Len(sfields) :
    sfields[k].isSigned <=> ResolvesToDict(sigForm.fields[sfields[k].fieldName].v)

\* C9 amended: a recorded signature field is reported signed exactly when
\* its V entry is present, whether or not it resolves to a dictionary; the
\* signature details are filled in only when it does.
C9_SignedIffValuePresent ==
  \A k \in 1 .. Len(sfields) :
    LET f == sigForm.fields[sfields[k].fieldName]
    IN /\ f.ft = "Sig"
       /\ sfields[k].isSigned <=> (f.v # "absent")
       /\ sfields[k].hasDetails <=> ResolvesToDict(f.v)

\* The analysis returned a field whose V is a string (signed, no details)
\* next to a field without V (unsigned).
C9_Witness ==
  /\ spc = "returned"
  /\ Len(sresult.fields) = 2
  /\ sigForm.fields[1].v = "other"
  /\ sresult.fields[1].isSigned /\ ~sresult.fields[1].hasDetails
  /\ sigForm.fields[2].v = "absent"
  /\ ~sresult.fields[2].isSigned

RecordedBefore(n) ==
  LET idx == {i \in 1 .. n : sigForm.fields[i].ft = "Sig"}
  IN [k \in 1 .. Cardinality(idx) |->
        LET i == CHOOSE x \in idx : Cardinality({y \in idx : y < x}) = k - 1
        IN [fieldName |-> i, isSigned |-> sigForm.fields[i].v # "absent",
            hasDetails |-> ResolvesToDict(sigForm.fields[i].v)]]

RECURSIVE Paths(_)
\* The positions of the nodes of a tree: <<>> for the node itself, <<k>> \o p
\* for position p in its k-th child.
Paths(node) ==
  {<<>>} \cup UNION {{<<k>> \o q : q \in Paths(node.children[k])} :
                       k \in 1 .. Len(node.children)}

RECURSIVE NodeAt(_, _)
NodeAt(node, path) ==
  IF path = <<>> THEN node ELSE NodeAt(node.children[Head(path)], Tail(path))

\* Number of nodes of a tree that carry role r.
NodesWithRole(node, r) ==
  Cardinality({q \in Paths(node) : NodeAt(node, q).role = r})

\* Length of the longest chain of nodes from a node down to a leaf.
ChainLength(node) ==
  1 + (CHOOSE n \in 0 .. MaxNodes + 2 :
         /\ \E q \in Paths(node) : Len(q) = n
         /\ \A q \in Paths(node) : Len(q) <= n)

\* The structure trees of the pages whose tree was read, in page order.
ReadTrees ==
  LET ps == SelectSeq(tagDoc.pages, LAMBDA p : p.kind = "tree")
  IN [k \in 1 .. Len(ps) |-> [role |-> PageRootRole, children |-> ps[k].children]]

\* C12: a throw of getStructTree on a page never makes the analysis throw
\* (only a failing getPage does); the page contributes nothing, and the
\* returned tree and element count are those of the other pages.
C12_StructFailureDegradesPage ==
  /\ tpc = "thrown" => \E i \in 1 .. Len(tagDoc.pages) :
                         tagDoc.pages[i].kind = "getPageFails"
  /\ (tpc = "returned" /\ tagDoc.marked) =>
       /\ tResult.rootChildren = ReadTrees
       /\ tResult.hasRoot <=> (Len(ReadTrees) > 0)
       /\ tResult.totalElements =
            SumSeq([k \in 1 .. Len(ReadTrees) |-> Cardinality(Paths(ReadTrees[k]))])

\* Page 1's getStructTree threw, page 2 has a tree with a tag: the analysis
\* returned page 2's subtree alone.
C12_Witness ==
  /\ tpc = "returned"
  /\ Len(tagDoc.pages) = 2
  /\ tagDoc.pages[1].kind = "structFails"
  /\ tagDoc.pages[2].kind = "tree"
  /\ Len(tagDoc.pages[2].children) > 0
  /\ Len(tResult.rootChildren) = 1
  /\ tResult.totalElements >= 2

\* C13: totalElements of a tagged document is the number of nodes of the
\* returned tree below the synthetic root: its children and all their
\* descendants, each once.
C13_TotalElementsCountsNodes ==
  (tpc = "returned" /\ tagDoc.marked) =>
    tResult.totalElements =
      SumSeq([k \in 1 .. Len(tResult.rootChildren) |->
                Cardinality(Paths(tResult.rootChildren[k]))])

\* Two pages produced subtrees, one of them with nested tags.
C13_Witness ==
  /\ tpc = "returned"
  /\ Len(tResult.rootChildren) = 2
  /\ tResult.totalElements >= 4
  /\ \E k \in 1 .. 2 : \E q \in Paths(tResult.rootChildren[k]) : Len(q) = 2

\* C14: when at least one page produced a subtree, maxDepth is 1 + the
\* largest depth of a page subtree, the depth of a node being the number of
\* nodes on its longest chain down to a leaf.
C14_MaxDepthIsDeepestPagePlusOne ==
  (tpc = "returned" /\ tResult.hasRoot) =>
    /\ \E k \in 1 .. Len(tResult.rootChildren) :
         tResult.maxDepth = 1 + ChainLength(tResult.rootChildren[k])
    /\ \A k \in 1 .. Len(tResult.rootChildren) :
         tResult.maxDepth >= 1 + ChainLength(tResult.rootChildren[k])

\* Two page subtrees of different depth: a bare page root and a page root
\* over a chain of two tags.
C14_Witness ==
  /\ tpc = "returned"
  /\ Len(tResult.rootChildren) = 2
  /\ ChainLength(tResult.rootChildren[1]) = 1
  /\ ChainLength(tResult.rootChildren[2]) = 3
  /\ tResult.maxDepth = 4

\* C15: for every role name the document-level role count is the sum over
\* the pages of the number of that page's tags with the role.
C15_RoleCountsAreSums ==
  (tpc = "returned" /\ tagDoc.marked) =>
    \A r \in AllTagRoles :
      tResult.roleCounts[r] =
        SumSeq([k \in 1 .. Len(ReadTrees) |-> NodesWithRole(ReadTrees[k], r)])

\* ------------------------------------------------- font inventory results

\* The pages on which some font entry resolves to base-font name n.
PagesUsing(n) ==
  {i \in 1 .. Len(fontDoc) :
     /\ fontDoc[i].resources
     /\ \E k \in 1 .. Len(FontKeys) :
          /\ fontDoc[i].fonts[k] \notin {"absent", "unresolved"}
          /\ BaseFontName(FontKeys[k], fontDoc[i].fonts[k]) = n}

\* C16: the returned inventory has a record for a base-font name exactly when
\* some page has a font resolving to it, and the record's pagesUsed lists
\* exactly those pages, each once.
C16_OneRecordPerBaseFont ==
  fpc = "returned" =>
    \A n \in FontNames :
      /\ SeqElems(fontMap[n]) = PagesUsing(n)
      /\ Len(fontMap[n]) = Cardinality(PagesUsing(n))

\* Helvetica is used on both pages, on page 1 under both resource names;
\* page 2 also has a font without /BaseFont, named by its key.
C16_Witness ==
  /\ fpc = "returned"
  /\ Len(fontDoc) = 2
  /\ fontDoc[1].fonts = <<"Helvetica", "Helvetica">>
  /\ fontDoc[2].fonts = <<"noBaseFont", "Helvetica">>
  /\ fontMap["Helvetica"] = <<1, 2>>
  /\ fontMap["F1"] = <<2>>
  /\ fontMap["F2"] = <<>>

\* ------------------------------------------------------ page-range results

\* A page number of the grammar: one or more digits.
IsNumberPart(p) == p # <<>> /\ IsDigits(p, 1, Len(p))

\* START "-" END of the grammar: two page numbers around one dash.
IsRangePart(p) ==
  \E i \in 2 .. Len(p) - 1 :
    /\ p[i] = "-"
    /\ IsNumberPart(SubSeq(p, 1, i - 1))
    /\ IsNumberPart(Rest(p, i + 1))

DashAt(p) == CHOOSE i \in 1 .. Len(p) : p[i] = "-"

StartOf(p) == DigitsValue(SubSeq(p, 1, DashAt(p) - 1))

EndOf(p) == DigitsValue(Rest(p, DashAt(p) + 1))

\* The parts of the string between its commas.
PartsOf(str) ==
  LET commas == {0, Len(str) + 1} \cup {i \in 1 .. Len(str) : str[i] = ","}
  IN {SubSeq(str, a + 1, b - 1) :
        <<a, b>> \in {ab \in commas \X commas :
                        /\ ab[1] < ab[2]
                        /\ \A c \in commas : ~(ab[1] < c /\ c < ab[2])}}

\* RANGE ("," RANGE)*, each RANGE with optional white space around it.
Conforms(str) ==
  \A p \in PartsOf(str) : IsNumberPart(Trim(p)) \/ IsRangePart(Trim(p))

\* The string conforms and none of its single page numbers is out of bounds.
Acceptable(str) ==
  /\ Conforms(str)
  /\ \A p \in PartsOf(str) :
       IsNumberPart(Trim(p)) => DigitsValue(Trim(p)) \in 1 .. prTotal

Clamp(n) == IF n < 1 THEN 1 ELSE IF n > prTotal THEN prTotal ELSE n

HasRangePart == \E p \in PartsOf(prPages) : IsRangePart(Trim(p))

\* C17 as stated: a START-END part yields the pages from START clamped into
\* [1,totalPages] to END clamped into [1,totalPages], and never an error.
C17_RangeClampsBothEnds ==
  (prpc # "call" /\ Acceptable(prPages) /\ HasRangePart) =>
    /\ prResult.kind = "list"
    /\ SeqElems(prResult.pages) =
         UNION {IF IsRangePart(Trim(p))
                THEN Clamp(StartOf(Trim(p))) .. Clamp(EndOf(Trim(p)))
                ELSE {DigitsValue(Trim(p))} : p \in PartsOf(prPages)}

\* C17 amended: a START-END part never causes an out-of-bound error and
\* yields exactly the pages of START..END that exist in the document: none
\* when START is beyond the last page or END is below 1.
C17_RangeYieldsPagesInDocument ==
  (prpc # "call" /\ Acceptable(prPages) /\ HasRangePart) =>
    /\ prResult.kind = "list"
    /\ SeqElems(prResult.pages) =
         UNION {IF IsRangePart(Trim(p))
                THEN {i \in 1 .. prTotal :
                        StartOf(Trim(p)) <= i /\ i <= EndOf(Trim(p))}
                ELSE {DigitsValue(Trim(p))} : p \in PartsOf(prPages)}

\* "0-9" on a two-page document: both ends are out of bounds.
C17_Witness ==
  /\ prpc = "returned"
  /\ prPages = <<"0", "-", "9">>
  /\ prTotal = 2
  /\ prResult.pages = <<1, 2>>

\* C18: a string that does not conform to RANGE ("," RANGE)* is rejected
\* with a typed error (the empty string, which stands for an absent
\* argument, aside).
C18_MalformedIsRejected ==
  (prpc # "call" /\ prPages # <<>> /\ ~Conforms(prPages)) =>
    prResult.kind = "error"

\* C19: an accepted string gives a strictly ascending page list with every
\* element in [1,totalPages].
C19_ListAscendingInDocument ==
  (prpc = "returned" /\ prResult.kind = "list") =>
    /\ \A i \in 1 .. Len(prResult.pages) : prResult.pages[i] \in 1 .. prTotal
    /\ \A i \in 1 .. Len(prResult.pages) - 1 :
         prResult.pages[i] < prResult.pages[i + 1]

\* "2,1" comes back sorted, "1,1" without the duplicate.
C19_Witness ==
  /\ prpc = "returned"
  /\ prPages = <<"2", ",", "1">>
  /\ prResult.pages = <<1, 2>>

\* ----------------------------------------------------------- image results

\* C20: when countImages and extractImages both return for the same document
\* and page selection, the count equals detectedCount.
C20_CountEqualsDetectedCount ==
  (cntpc = "returned" /\ extpc = "returned") =>
    cntResult = extResult.detectedCount

\* The image XObject operators of the selected pages, as <<page, operator>>.
SelectedImages ==
  {pi \in SeqElems(imgSel) \X (1 .. MaxOps) :
     /\ pi[2] <= Len(imgDoc[pi[1]])
     /\ imgDoc[pi[1]][pi[2]].fn = "paintImageXObject"}

\* C21: extractImages never fails on an image whose pixel data cannot be
\* read; every image XObject is counted in detectedCount, only those with
\* data in extractedCount, extractedCount is the number of returned images
\* and skippedCount = detectedCount - extractedCount >= 0.
C21_UnreadableImageIsSkipped ==
  /\ extpc # "thrownOnImage"
  /\ extpc = "returned" =>
       /\ extResult.detectedCount = Cardinality(SelectedImages)
       /\ extResult.extractedCount =
            Cardinality({pi \in SelectedImages :
                           imgDoc[pi[1]][pi[2]].data = "data"})
       /\ extResult.extractedCount = Len(extResult.images)
       /\ extResult.skippedCount =
            extResult.detectedCount - extResult.extractedCount
       /\ extResult.skippedCount >= 0

\* One page with an image whose objs.get throws and an image with data.
C21_Witness ==
  /\ extpc = "returned"
  /\ Len(imgDoc) = 1
  /\ imgSel = <<1>>
  /\ Len(imgDoc[1]) = 2
  /\ imgDoc[1][1] = [fn |-> "paintImageXObject", data |-> "throws"]
  /\ imgDoc[1][2] = [fn |-> "paintImageXObject", data |-> "data"]
  /\ extResult.detectedCount = 2
  /\ extResult.skippedCount = 1
  /\ extResult.images = <<[page |-> 1, index |-> 1]>>

\* ---------------------------------------------------------- load results

\* C23: no buffer larger than MAX_FILE_SIZE is handed to a parser, and an
\* oversized input that gets as far as its size test is rejected with
\* FILE_TOO_LARGE: an oversized input never loads, and fails only with that
\* code or with an error met before the size was known.
C23_OversizedNeverParsed ==
  /\ \A k \in 1 .. Len(parserInput) : parserInput[k] <= MAX_FILE_SIZE
  /\ ldInput.size > MAX_FILE_SIZE =>
       /\ parserInput = <<>>
       /\ ldpc \notin {"parse", "loaded"}
       /\ ldpc = "thrown" =>
            ldError \in {"FILE_TOO_LARGE", "INVALID_PATH", "ENOENT",
                         "INVALID_URL", "UNSUPPORTED_PROTOCOL",
                         "FETCH_REJECTED", "FETCH_FAILED"}

\* A download one byte over the cap whose content-length header is missing
\* is rejected after the body has been read.
C23_Witness ==
  /\ ldSource = "url"
  /\ ldInput.size = MAX_FILE_SIZE + 1
  /\ ldInput.contentLength = <<>>
  /\ ldpc = "thrown"
  /\ ldError = "FILE_TOO_LARGE"
  /\ parserInput = <<>>

\* --------------------------------------------------------- batch results

\* The batch an item belongs to, counted from 0.
BatchOf(k) == (k - 1) \div (IF bpBatchSize >= 1 THEN bpBatchSize ELSE 1)

InFlight == {k \in 1 .. bpItems : bpTask[k] = "running"}

\* C24: an item's processor has started only if every processor of every
\* earlier batch has completed, and at most max(1, batchSize) processors are
\* in flight.
C24_BatchesRunSequentially ==
  /\ \A k \in 1 .. bpItems :
       bpTask[k] # "idle" =>
         \A j \in 1 .. bpItems : BatchOf(j) < BatchOf(k) => bpTask[j] = "done"
  /\ Cardinality(InFlight) <= (IF bpBatchSize >= 1 THEN bpBatchSize ELSE 1)

\* Four items in batches of two: both processors of the second batch are
\* in flight after both of the first are done.
C24_Witness ==
  /\ bpItems = 4
  /\ bpBatchSize = 2
  /\ bpTask = <<"done", "done", "running", "running">>
  /\ bpResults = <<1, 2>>

\* ------------------------------------------------------- handle lifetime

\* C25: no task of a call is still reading from a handle that has been
\* destroyed.
C25_NoTaskReadsDestroyedHandle ==
  \A i \in 1 .. Len(tasks) :
    Running(tasks[i]) => handles[tasks[i].h].st # "destroyed"

\* -------------------------------------------------- reconstruction results

\* C26: after the sort, of two runs more than 2 units apart vertically the
\* one with the greater y comes first, and of two runs at most 2 units
\* apart the one with the smaller x comes first.
C26_SortedByLineThenColumn ==
  rcpc \in {"sorted", "returned"} =>
    \A i, j \in 1 .. Len(rcItems) :
      /\ (Abs(rcItems[i].y - rcItems[j].y) > 2 /\ rcItems[i].y > rcItems[j].y)
           => i < j
      /\ (Abs(rcItems[i].y - rcItems[j].y) <= 2 /\ rcItems[i].x < rcItems[j].x)
           => i < j

\* C27 as stated: any two runs of one output line are at most 2 units
\* apart vertically.
C27_LineSpansAtMostTwoUnits ==
  rcpc = "returned" =>
    \A l \in 1 .. Len(rcLines) :
      \A i, j \in 1 .. Len(rcLines[l]) :
        Abs(rcLines[l][i].y - rcLines[l][j].y) <= 2

\* C27 amended: the lines are the sorted runs cut exactly where two
\* neighbouring runs are more than 2 units apart vertically: neighbours on
\* one line are at most 2 units apart, the last run of a line and the first
\* of the next are more than 2 units apart.
C27_LinesCutAtGapsBetweenNeighbours ==
  rcpc = "returned" =>
    /\ Flatten(rcLines) = rcItems
    /\ \A l \in 1 .. Len(rcLines) :
         /\ rcLines[l] # <<>>
         /\ \A i \in 1 .. Len(rcLines[l]) - 1 :
              Abs(rcLines[l][i].y - rcLines[l][i + 1].y) <= 2
         /\ l < Len(rcLines) =>
              Abs(rcLines[l][Len(rcLines[l])].y - rcLines[l + 1][1].y) > 2

\* Runs at y = 4, 2, 0 chain into one line although the first and the last
\* are 4 units apart.
C27_Witness ==
  /\ rcpc = "returned"
  /\ Len(rcItems) = 3
  /\ rcItems[1].y = 4 /\ rcItems[2].y = 2 /\ rcItems[3].y = 0
  /\ Len(rcLines) = 1

\* The text extractPageText gives for the items in some order.
TextsFor(s) ==
  {TextOf(GroupLines(t, 1, t[1].y, <<>>, <<>>)) : t \in SortOutcomes(s)}

Reorderings(s) == {[i \in 1 .. Len(s) |-> s[p[i]]] : p \in Perms(s)}

\* C28 as stated: the same runs supplied in any other order give the same
\* text.
C28_TextIndependentOfInputOrder ==
  rcpc = "returned" =>
    \A t \in Reorderings(rcInput) : t = <<>> \/ TextsFor(t) = {rcText}

\* No two runs compare equal and the comparator is consistent on them.
StrictlyOrdered(s) ==
  /\ Consistent(s)
  /\ \A i, j \in 1 .. Len(s) : i # j => compare(s[i], s[j]) # 0

\* C28 amended: when the comparator orders the runs consistently and no two
\* of them compare equal, the same runs supplied in any other order give
\* the same text.
C28_TextIndependentWhenStrictlyOrdered ==
  (rcpc = "returned" /\ StrictlyOrdered(rcInput)) =>
    \A t \in Reorderings(rcInput) : t = <<>> \/ TextsFor(t) = {rcText}

\* Three runs in two lines, supplied in an order that is neither the
\* sorted one nor its reverse.
C28_Witness ==
  /\ rcpc = "returned"
  /\ rcInput = <<[y |-> 0, x |-> 5, str |-> "a"],
                 [y |-> 4, x |-> 10, str |-> "c"],
                 [y |-> 2, x |-> 0, str |-> "b"]>>
  /\ rcText = <<"b", " ", "c", "\n", "a">>

====
